---- MODULE Spec2Model ----
(***************************************************************************)
(* Model of the pipeline orchestrator of ugc-video-factory.                *)
(*                                                                         *)
(* The repository holds two orchestrators, both called Joker, and two      *)
(* stand-alone helpers with a retry engine or a stage record of their own: *)
(*   J7  the Joker of src/unnamed/part_007 (constructed from JokerOptions, *)
(*       the one the /api/pipeline route instantiates),                    *)
(*   J8  the Joker of src/unnamed/part_008 (constructed from a callback),  *)
(*   TY  the pure state helpers of src/src/lib/types.ts,                   *)
(*   UT  retryWithBackoff of src/unnamed/part_004.                         *)
(* The variable impl, fixed in the initial state, says which of them the   *)
(* behaviour exercises; each behaviour is one object of one of them.       *)
(*                                                                         *)
(* JavaScript runs a handler to its next suspension point without          *)
(* interleaving, so an action is the code between two suspension points    *)
(* (a provider call in flight, a backoff timer, the settled promise).      *)
(* cancel() can only run at such a point.  The stage providers are opaque: *)
(* a call resolves with one of a few representative results or rejects.    *)
(* Money is counted in cents, times are abstracted to "time" (the helper   *)
(* of types.ts gets a clock whose readings differ from call to call).      *)
(***************************************************************************)
EXTENDS Integers, Sequences, FiniteSets, TLC

VARIABLES
    impl,                \* which component this behaviour exercises
    pc,                  \* position of run(): idle, boundary, inflight, backoff, resolved, rejected
    stage,               \* the stage run() is at
    status,              \* state.status
    currentStep,         \* state.currentStep
    steps,               \* state.steps
    costs,               \* state.costs
    error,               \* state.error
    cancelled,           \* this.cancelled
    retryCount,          \* J8: this.retryCount (Map stepName -> number)
    attempt,             \* J7: loop variable of retryWithBackoff; UT: retries
    maxRetries,          \* J7: this.maxRetries; J8: this.maxRetries; UT: parameter maxRetries
    productData,         \* state.productData
    visionAnalysis,      \* state.visionAnalysis
    transparentImageUrl, \* state.transparentImageUrl
    marketingAngles,     \* state.marketingAngles
    videoGenResult,      \* state.videoGenResult
    finalVideoUrl,       \* state.finalVideoUrl
    qualityGates,        \* J7: state.qualityGates
    startedAt,           \* J8: state.startedAt
    finishedAt,          \* J7: state.endTime; J8: state.completedAt
    runError,            \* the value run() rejected with ("none" while it has not)
    calls,               \* observation: provider invocations of the current engine call
    invoked,             \* observation: stages whose provider has been invoked
    slept,               \* observation: backoff delays slept in the current engine call
    lastFailure,         \* observation: kind of the last provider failure of the current engine call
    cancelPc,            \* observation: pc at which cancel() was first called
    nUpdates,            \* TY: number of helper calls applied so far
    events,              \* observation: mutations and notifications of the last step, in order
    logs,                \* the logger's entries since the current stage started
    snapshot,            \* the first state object handed to onStateChange or returned by getState
    nCancels,            \* observation: number of cancel() calls
    totalCost,           \* the module-level totalCost of the provider modules
    runPc,               \* MC: position of each of the two concurrent runs
    tracked,             \* MC: observation, the cost each run's own calls have tracked
    input,               \* RB, RS, GM: the argument and environment of the call
    result,              \* RB, RS: what removeBackground settled with
    stateLogs,           \* this.state.logs, the logs field of the state objects handed out
    qualityAttempt,      \* GM: loop variable of the quality loop of generateMarketingAngles
    averageQuality,      \* GM: averageQuality of the last parsed response (0: none yet)
    sent,                \* RT: the messages enqueued on the response stream, in order
    streamPc,            \* RT: the response: none, open, closed, or 400
    wire,                \* HP, DB: the part of the response body not yet read
    buffer,              \* DB: the local variable buffer of the read loop
    handled,             \* HP, DB: observation, the messages dispatched so far
    store,               \* HP, DB, SC: the state of usePipelineStore (status, costs)
    consecutiveErrors,   \* PL: local variable of pollForCompletion
    view,                \* LG: what the last read view of the logger returned
    nReruns,             \* observation: calls of run() on an object whose run had settled
    pstate               \* UC: the PipelineState handed to updateCosts (costs, totalCost)

vars == <<impl, pc, stage, status, currentStep, steps, costs, error, cancelled,
          retryCount, attempt, maxRetries, productData, visionAnalysis,
          transparentImageUrl, marketingAngles, videoGenResult, finalVideoUrl,
          qualityGates, startedAt, finishedAt, runError, calls, invoked, slept,
          lastFailure, cancelPc, nUpdates, events, logs, snapshot, nCancels, totalCost,
          runPc, tracked, input, result, stateLogs, qualityAttempt, averageQuality,
          sent, streamPc, wire, buffer, handled, store, consecutiveErrors, view,
          nReruns, pstate>>

\* what the orchestrators' observers see
obsVars == <<events, logs, snapshot, nCancels, stateLogs>>

\* the locals of generateMarketingAngles
gmVars == <<qualityAttempt, averageQuality>>

\* the state of the provider modules
clientVars == <<totalCost, runPc, tracked, input, result, gmVars>>

\* the response stream of the /api/pipeline route
routeVars == <<sent, streamPc>>

\* the browser side: the read loop and the store
uiVars == <<wire, buffer, handled, store>>

\* the variables of the route, the browser side and the stand-alone helpers
extVars == <<routeVars, uiVars, consecutiveErrors, view, nReruns, pstate>>

\* the variables holding stage outputs
dataVars == <<productData, visionAnalysis, transparentImageUrl, marketingAngles,
              videoGenResult, finalVideoUrl>>

-----------------------------------------------------------------------------
(* Bounds of the model *)

\* largest maxRetries / maxAttempts a caller configures (J7 option, UT parameter)
MaxConfiguredAttempts == 6

\* number of types.ts helper calls applied in one behaviour
MaxUpdates == 3

\* number of cancel() calls in one behaviour
MaxCancels == 2

\* number of keep-alive pings sent on one response stream
MaxPings == 1

\* number of times run() is called again on an object whose run has settled
MaxReruns == 1

\* number of entries logged before the logger's views are read
MaxLogs == 3

\* number of messages in a response body read by the browser side
MaxMessages == 2

\* largest number of pieces of the body one read returns (two whole messages)
MaxChunk == 14

-----------------------------------------------------------------------------
(* Stages *)

StageOrder == <<"scraping", "vision", "background", "content", "video", "assembly">>

Steps == {StageOrder[i] : i \in 1..Len(StageOrder)}

StageIndex(s) == CHOOSE i \in 1..Len(StageOrder) : StageOrder[i] = s

Min(a, b) == IF a <= b THEN a ELSE b

\* JavaScript's `x != null`: neither null nor undefined
NonNull(x) == x \notin {"null", "undefined"}

StepFields == {"status", "progress", "startedAt", "completedAt", "error"}

\* { ...old, ...updates } on a step record; a field never written reads undefined
Spread(old, updates) ==
    [f \in StepFields |-> IF f \in DOMAIN updates THEN updates[f] ELSE old[f]]

SumCosts(c) ==
    c.scraping + c.vision + c.background + c.content + c.video + c.assembly

ZeroCosts ==
    [scraping |-> 0, vision |-> 0, background |-> 0, content |-> 0,
     video |-> 0, assembly |-> 0, total |-> 0]

-----------------------------------------------------------------------------
(* Provider results (representatives of what a provider can resolve with)   *)

\* ProductData by the fields evaluateQuality and the stage guards read
ProductTable ==
    [full     |-> [title |-> TRUE,  description |-> TRUE,  images |-> TRUE,
                   price |-> TRUE,  features |-> TRUE],
     noImages |-> [title |-> TRUE,  description |-> TRUE,  images |-> FALSE,
                   price |-> TRUE,  features |-> TRUE],
     sparse   |-> [title |-> FALSE, description |-> FALSE, images |-> TRUE,
                   price |-> FALSE, features |-> FALSE]]

ProductChoices == DOMAIN ProductTable

\* VisionAnalysis by its confidence, in hundredths
VisionTable == [sure |-> 90, unsure |-> 50]

VisionChoices == DOMAIN VisionTable

\* MarketingAngle[] by its length and whether every hook is longer than 10
AnglesTable ==
    [three |-> [length |-> 3, hooks |-> TRUE],
     one   |-> [length |-> 1, hooks |-> TRUE],
     none  |-> [length |-> 0, hooks |-> TRUE]]

AnglesChoices == DOMAIN AnglesTable

\* VideoGenResult by whether it carries a url
VideoTable == [withUrl |-> TRUE, noUrl |-> FALSE]

VideoChoices == DOMAIN VideoTable

ResultChoices(s) ==
    CASE s = "scraping"   -> ProductChoices
      [] s = "vision"     -> VisionChoices
      [] s = "background" -> {"url"}
      [] s = "content"    -> AnglesChoices
      [] s = "video"      -> VideoChoices
      [] s = "assembly"   -> {"url"}

\* a provider failure is transient (429, 5xx, timeout) or fatal (missing key, 4xx)
FailureKinds == {"retryable", "fatal"}

-----------------------------------------------------------------------------
(* What an observer sees: log entries, notifications, state objects         *)

\* createLogEntry(step, level, message): an entry by its step and its level
createLogEntry(step, level) == [step |-> step, level |-> level]

\* part_008 calls this.logger.<level>(message, data), so the message is
\* bound to the parameter step: the entry's step is a sentence, never the
\* name of a stage
J8_logEntry(level) == createLogEntry("message", level)

\* { ...this.state } copies the top level only: the steps and costs of the
\* object handed out are the orchestrator's own objects
J7_SharedFields == {"steps", "costs"}

\* this.state itself is handed out; updateState replaces it by a copy of
\* its top level, updateStep and the cost assignments write into the steps
\* and costs objects every copy refers to
J8_SharedFields == {"steps", "costs"}

\* a state object without a logs field (initializeState of part_008)
NoStateLogs == [present |-> FALSE, entries |-> <<>>]

\* logs: [] of a freshly constructed state
EmptyStateLogs == [present |-> TRUE, entries |-> <<>>]

\* this.state.logs = this.logger.getLogs(): a copy of the logger's entries
\* at the moment of the notification
J7_emitStateChange(lg) == [present |-> TRUE, entries |-> lg]

\* `log.cost || 0`: an entry carries a cost only when the caller passed one
EntryCost(e) == IF "cost" \in DOMAIN e THEN e.cost ELSE 0

RECURSIVE SumEntryCosts(_, _)
\* the costs of the entries of lg whose step is in ss, added up
SumEntryCosts(lg, ss) ==
    IF lg = <<>>
      THEN 0
      ELSE (IF Head(lg).step \in ss THEN EntryCost(Head(lg)) ELSE 0)
             + SumEntryCosts(Tail(lg), ss)

\* PipelineLogger.getCostBreakdown(): the cost reported for step s (a step
\* without cost-annotated entries is not in the report)
PipelineLogger_getCostBreakdown(lg, s) == SumEntryCosts(lg, {s})

\* PipelineLogger.getTotalCost()
PipelineLogger_getTotalCost(lg) ==
    SumEntryCosts(lg, {lg[i].step : i \in 1..Len(lg)})

\* the observer keeps the first object it is handed
HandOver(snap, shares, st, cur, stp, c) ==
    IF snap.handed
      THEN snap
      ELSE [handed |-> TRUE, status |-> st, currentStep |-> cur, steps |-> stp,
            costs |-> c, shares |-> shares]

-----------------------------------------------------------------------------
(* J8: the Joker of src/unnamed/part_008                                    *)

J8_MAX_RETRIES == 3

\* `qualityScore < 8`
J8_QUALITY_MIN == 8

\* the amounts the step methods book, in cents
J8_COST_SCRAPING == 5
J8_COST_VISION == 2
J8_COST_BACKGROUND == 10
J8_COST_CONTENT == 3
J8_COST_VIDEO == 50
J8_COST_ASSEMBLY == 30

J8_StepCost(s) ==
    CASE s = "scraping"   -> J8_COST_SCRAPING
      [] s = "vision"     -> J8_COST_VISION
      [] s = "background" -> J8_COST_BACKGROUND
      [] s = "content"    -> J8_COST_CONTENT
      [] s = "video"      -> J8_COST_VIDEO
      [] s = "assembly"   -> J8_COST_ASSEMBLY

J8_initialStep ==
    [status |-> "pending", progress |-> 0, startedAt |-> "undefined",
     completedAt |-> "undefined", error |-> "undefined"]

\* this.state.steps[step] = { ...this.state.steps[step], ...updates }
J8_updateStep(stp, s, updates) ==
    [stp EXCEPT ![s] = Spread(stp[s], updates)]

\* J8_bookCost with the total assigned where the code accumulates it
J8_bookCost_TotalAssigned(c, s) ==
    [c EXCEPT ![s] = J8_StepCost(s), !.total = J8_StepCost(s)]

\* this.state.costs.<step> = <amount>; this.state.costs.total += <amount>
J8_bookCost(c, s) ==
    [c EXCEPT ![s] = J8_StepCost(s), !.total = c.total + J8_StepCost(s)]

B2N(b) == IF b THEN 1 ELSE 0

evaluateQuality(s, r) ==
    CASE s = "scraping" ->
            5 + B2N(ProductTable[r].title) + B2N(ProductTable[r].description)
              + B2N(ProductTable[r].images) + B2N(ProductTable[r].price)
              + B2N(ProductTable[r].features)
      [] s = "vision" ->
            IF VisionTable[r] >= 80 THEN 9 ELSE IF VisionTable[r] >= 60 THEN 7 ELSE 5
      [] s = "content" ->
            IF AnglesTable[r].length >= 3 /\ AnglesTable[r].hooks THEN 9 ELSE 7
      [] s = "video" ->
            IF VideoTable[r] THEN 9 ELSE 5
      [] OTHER -> 8

\* the step methods that hand executeWithRetry a validator
J8_HasValidator(s) == s \in {"scraping", "vision", "content", "video"}

\* Math.min(1000 * Math.pow(2, retryCount), 10000)
exponentialBackoff(n) == Min(1000 * (2 ^ n), 10000)

\* J8_DepsPresent with the guard of runVisionStep left out
J8_DepsPresent_VisionUnguarded(s) ==
    CASE s \in {"scraping", "vision"} -> TRUE
      [] s = "background" -> productData # "null" /\ ProductTable[productData].images
      [] s = "content"    -> productData # "null" /\ visionAnalysis # "null"
      [] s = "video"      -> AnglesTable[marketingAngles].length > 0
      [] s = "assembly"   -> videoGenResult # "null" /\ transparentImageUrl # "null"

\* the guard at the head of each step method (true: the step may start)
J8_DepsPresent(s) ==
    CASE s = "scraping"   -> TRUE
      [] s = "vision"     -> productData # "null" /\ ProductTable[productData].images
      [] s = "background" -> productData # "null" /\ ProductTable[productData].images
      [] s = "content"    -> productData # "null" /\ visionAnalysis # "null"
      [] s = "video"      -> AnglesTable[marketingAngles].length > 0
      [] s = "assembly"   -> videoGenResult # "null" /\ transparentImageUrl # "null"

J8_DepsMessage(s) ==
    CASE s \in {"vision", "background"} -> "No product image available"
      [] s = "content"  -> "Missing required data for content generation"
      [] s = "video"    -> "No marketing angles available"
      [] s = "assembly" -> "Missing required assets for assembly"
      [] OTHER          -> "unreachable"

\* NextStage with the vision step left out of run()
NextStage_SkipsVision(s) ==
    IF s = "scraping" THEN "background" ELSE StageOrder[StageIndex(s) + 1]

\* the order in which run() awaits the step methods
NextStage(s) == StageOrder[StageIndex(s) + 1]

\* run(): reset the flag, mark the run running, arrive at the first stage
J8_run ==
    /\ impl = "J8"
    /\ UNCHANGED <<nCancels, stateLogs, clientVars>>
    /\ pc = "idle"
    /\ cancelled' = FALSE
    /\ status' = "running"
    /\ startedAt' = "time"
    /\ error' = "null"
    /\ stage' = "scraping"
    /\ pc' = "boundary"
    /\ UNCHANGED <<impl, extVars, currentStep, steps, costs, retryCount, attempt, maxRetries,
                   dataVars, qualityGates, finishedAt, runError, calls, invoked,
                   slept, lastFailure, cancelPc, nUpdates>>
    /\ events' = <<"state", "notify", "log">>
    /\ logs' = <<J8_logEntry("info")>>
    /\ snapshot' = HandOver(snapshot, J8_SharedFields, "running", currentStep,
                            steps, costs)

\* the catch block of run(): the run is marked failed and run() rejects
J8_runCatch(msg) ==
    /\ status' = "failed"
    /\ error' = msg
    /\ finishedAt' = "time"
    /\ runError' = msg
    /\ pc' = "rejected"

\* `if (this.cancelled) throw ...; await this.run<Stage>Step()` up to the
\* provider call: the guards, currentStep, the step marked running, and the
\* first fn() of executeWithRetry
J8_StartStage ==
    /\ impl = "J8"
    /\ UNCHANGED <<nCancels, stateLogs, clientVars>>
    /\ pc = "boundary"
    /\ IF cancelled
         THEN /\ J8_runCatch("Pipeline cancelled")
              /\ UNCHANGED <<currentStep, steps, calls, invoked, slept, lastFailure>>
         ELSE IF ~J8_DepsPresent(stage)
         THEN /\ J8_runCatch(J8_DepsMessage(stage))
              /\ UNCHANGED <<currentStep, steps, calls, invoked, slept, lastFailure>>
         ELSE /\ currentStep' = stage
              /\ steps' = J8_updateStep(steps, stage,
                             [status |-> "running", startedAt |-> "time"])
              /\ calls' = 1
              /\ invoked' = invoked \cup {stage}
              /\ slept' = <<>>
              /\ lastFailure' = "none"
              /\ pc' = "inflight"
              /\ UNCHANGED <<status, error, finishedAt, runError>>
    /\ UNCHANGED <<impl, extVars, stage, costs, cancelled, retryCount, attempt, maxRetries,
                   dataVars, qualityGates, startedAt, cancelPc, nUpdates>>
    /\ IF cancelled \/ ~J8_DepsPresent(stage)
         THEN /\ events' = <<"state", "notify", "log">>
              /\ logs' = Append(logs, J8_logEntry("error"))
              /\ snapshot' = HandOver(snapshot, J8_SharedFields, "failed",
                                      currentStep, steps, costs)
         ELSE /\ events' = <<"state", "notify", "step", "notify", "log">>
              /\ logs' = <<J8_logEntry("info")>>
              /\ snapshot' = HandOver(snapshot, J8_SharedFields, status, stage,
                                      steps, costs)

\* this.updateState({ <output of the stage> })
J8_StoreResult(s, r) ==
    /\ productData' = IF s = "scraping" THEN r ELSE productData
    /\ visionAnalysis' = IF s = "vision" THEN r ELSE visionAnalysis
    /\ transparentImageUrl' = IF s = "background" THEN r ELSE transparentImageUrl
    /\ marketingAngles' = IF s = "content" THEN r ELSE marketingAngles
    /\ videoGenResult' = IF s = "video" THEN r ELSE videoGenResult
    /\ finalVideoUrl' = IF s = "assembly" THEN r ELSE finalVideoUrl

\* executeWithRetry: does a resolved result go round the quality loop again?
J8_QualityRetry(s, r, retries) ==
    /\ J8_HasValidator(s)
    /\ evaluateQuality(s, r) < J8_QUALITY_MIN
    /\ retries < maxRetries

\* executeWithRetry: is a rejected call tried again?
J8_ErrorRetry(retries) == retries < maxRetries

\* the provider call resolves with r
J8_FnResolves(r) ==
    /\ impl = "J8"
    /\ UNCHANGED <<nCancels, stateLogs, clientVars>>
    /\ pc = "inflight"
    /\ r \in ResultChoices(stage)
    /\ lastFailure' = "none"
    /\ IF J8_QualityRetry(stage, r, retryCount[stage])
         THEN /\ retryCount' = [retryCount EXCEPT ![stage] = @ + 1]
              /\ slept' = Append(slept, exponentialBackoff(retryCount[stage]))
              /\ pc' = "backoff"
              /\ UNCHANGED <<stage, status, steps, costs, dataVars, finishedAt>>
         ELSE /\ retryCount' = [retryCount EXCEPT ![stage] = 0]
              /\ J8_StoreResult(stage, r)
              /\ costs' = J8_bookCost(costs, stage)
              /\ steps' = J8_updateStep(steps, stage,
                             [status |-> "completed", progress |-> 100,
                              completedAt |-> "time"])
              /\ UNCHANGED slept
              /\ IF stage = "assembly"
                   THEN /\ status' = "completed"
                        /\ finishedAt' = "time"
                        /\ pc' = "resolved"
                        /\ UNCHANGED stage
                   ELSE /\ stage' = NextStage(stage)
                        /\ pc' = "boundary"
                        /\ UNCHANGED <<status, finishedAt>>
    /\ UNCHANGED <<impl, extVars, currentStep, error, cancelled, attempt, maxRetries,
                   qualityGates, startedAt, runError, calls, invoked, cancelPc,
                   nUpdates>>
    /\ LET scored == IF J8_HasValidator(stage) THEN <<"log">> ELSE <<>>
           scoredLog == IF J8_HasValidator(stage)
                          THEN <<J8_logEntry("info")>> ELSE <<>>
           last == stage = "assembly"
       IN  IF J8_QualityRetry(stage, r, retryCount[stage])
             THEN /\ events' = scored \o <<"log">>
                  /\ logs' = logs \o scoredLog \o <<J8_logEntry("warn")>>
                  /\ UNCHANGED snapshot
             ELSE /\ events' = scored
                                \o <<"state", "notify", "cost", "step", "notify", "log">>
                                \o (IF last THEN <<"state", "notify", "log">> ELSE <<>>)
                  /\ logs' = logs \o scoredLog \o <<J8_logEntry("info")>>
                                \o (IF last THEN <<J8_logEntry("info")>> ELSE <<>>)
                  /\ snapshot' = HandOver(snapshot, J8_SharedFields, status,
                                          currentStep, steps, costs)

\* the provider call rejects with a failure of the given kind
J8_FnRejects(kind) ==
    /\ impl = "J8"
    /\ UNCHANGED <<nCancels, stateLogs, clientVars>>
    /\ pc = "inflight"
    /\ kind \in FailureKinds
    /\ lastFailure' = kind
    /\ IF J8_ErrorRetry(retryCount[stage])
         THEN /\ retryCount' = [retryCount EXCEPT ![stage] = @ + 1]
              /\ slept' = Append(slept, exponentialBackoff(retryCount[stage]))
              /\ pc' = "backoff"
              /\ UNCHANGED <<status, steps, error, finishedAt, runError>>
         ELSE /\ steps' = J8_updateStep(steps, stage,
                             [status |-> "failed", error |-> "provider error"])
              /\ J8_runCatch("provider error")
              /\ UNCHANGED <<retryCount, slept>>
    /\ UNCHANGED <<impl, extVars, stage, currentStep, costs, cancelled, attempt, maxRetries,
                   dataVars, qualityGates, startedAt, calls, invoked, cancelPc,
                   nUpdates>>
    /\ logs' = Append(logs, J8_logEntry("error"))
    /\ IF J8_ErrorRetry(retryCount[stage])
         THEN /\ events' = <<"log">>
              /\ UNCHANGED snapshot
         ELSE /\ events' = <<"step", "notify", "state", "notify", "log">>
              /\ snapshot' = HandOver(snapshot, J8_SharedFields, status,
                                      currentStep, steps', costs)

\* the backoff timer fires: executeWithRetry calls itself and fn() again
J8_BackoffElapsed ==
    /\ impl = "J8"
    /\ UNCHANGED <<logs, snapshot, nCancels, stateLogs, clientVars>>
    /\ pc = "backoff"
    /\ calls' = calls + 1
    /\ pc' = "inflight"
    /\ UNCHANGED <<impl, extVars, stage, status, currentStep, steps, costs, error, cancelled,
                   retryCount, attempt, maxRetries, dataVars, qualityGates,
                   startedAt, finishedAt, runError, invoked, slept, lastFailure,
                   cancelPc, nUpdates>>
    /\ events' = <<>>

\* the points at which another task (a cancel() caller) can run
Suspended == pc \in {"idle", "inflight", "backoff", "resolved", "rejected"}

J8_cancel ==
    /\ impl = "J8"
    /\ UNCHANGED <<stateLogs, clientVars>>
    /\ nCancels < MaxCancels
    /\ nCancels' = nCancels + 1
    /\ Suspended
    /\ cancelled' = TRUE
    /\ status' = "cancelled"
    /\ finishedAt' = "time"
    /\ cancelPc' = IF cancelPc = "none" THEN pc ELSE cancelPc
    /\ UNCHANGED <<impl, extVars, pc, stage, currentStep, steps, costs, error, retryCount,
                   attempt, maxRetries, dataVars, qualityGates, startedAt, runError,
                   calls, invoked, slept, lastFailure, nUpdates>>
    /\ events' = <<"state", "notify", "log">>
    /\ logs' = Append(logs, J8_logEntry("warn"))
    /\ snapshot' = HandOver(snapshot, J8_SharedFields, "cancelled", currentStep,
                            steps, costs)

\* getState() before any notification: the caller is handed this.state
J8_getState ==
    /\ impl = "J8"
    /\ Suspended
    /\ ~snapshot.handed
    /\ snapshot' = HandOver(snapshot, J8_SharedFields, status, currentStep,
                            steps, costs)
    /\ events' = <<>>
    /\ UNCHANGED <<impl, extVars, pc, stage, status, currentStep, steps, costs, error,
                   cancelled, retryCount, attempt, maxRetries, dataVars,
                   qualityGates, startedAt, finishedAt, runError, calls, invoked,
                   slept, lastFailure, cancelPc, nUpdates, logs, nCancels,
                   stateLogs, clientVars>>

J8_Init ==
    /\ impl = "J8"
    /\ status = "idle"
    /\ currentStep = "null"
    /\ steps = [s \in Steps |-> J8_initialStep]
    /\ costs = ZeroCosts
    /\ error = "null"
    /\ startedAt = "null"
    /\ finishedAt = "null"
    /\ productData = "null"
    /\ visionAnalysis = "null"
    /\ transparentImageUrl = "null"
    /\ marketingAngles = "none"
    /\ videoGenResult = "null"
    /\ finalVideoUrl = "null"
    /\ qualityGates = "undefined"
    /\ cancelled = FALSE
    /\ retryCount = [s \in Steps |-> 0]
    /\ maxRetries = J8_MAX_RETRIES
    /\ attempt = 0
    /\ stateLogs = NoStateLogs

\* the provider modules that keep a module-level totalCost
Modules == {"apify", "vidgo", "removebg", "mistral"}

\* the two runs of the concurrent scenario
Runs == {1, 2}

\* no state object handed out yet
NoSnapshot ==
    [handed |-> FALSE, status |-> "none", currentStep |-> "none",
     steps |-> <<>>, costs |-> <<>>, shares |-> {}]

\* removeBackground not called
NoInput == [image |-> "none", apiKey |-> FALSE]

NoResult ==
    [settled |-> "pending", transparentUrl |-> "none", cost |-> 0,
     warning |-> FALSE]

\* what every component starts with: run() not called, nothing observed
IdleInit ==
    /\ events = <<>>
    /\ logs = <<>>
    /\ snapshot = NoSnapshot
    /\ nCancels = 0
    /\ totalCost = [m \in Modules |-> 0]
    /\ runPc = [r \in Runs |-> "idle"]
    /\ tracked = [r \in Runs |-> [m \in Modules |-> 0]]
    /\ result = NoResult
    /\ qualityAttempt = 0
    /\ averageQuality = 0
    /\ pc = "idle"
    /\ stage = "scraping"
    /\ runError = "none"
    /\ calls = 0
    /\ invoked = {}
    /\ slept = <<>>
    /\ lastFailure = "none"
    /\ cancelPc = "none"
    /\ nUpdates = 0

\* the keys of CostBreakdown besides total
ProviderKeys == {"apify", "openai", "mistral", "vidgo", "shotstack", "removebg"}

\* initialCosts of the store, costs of createInitialPipelineState
initialCosts == [k \in ProviderKeys \cup {"total"} |-> 0]

\* the initial state of usePipelineStore (also what reset() sets)
initialStore == [status |-> "idle", costs |-> initialCosts]

\* createInitialPipelineState(): the cost fields
initialPipelineState == [costs |-> initialCosts, totalCost |-> 0]

\* no read view of the logger taken yet
NoView == [kind |-> "none", key |-> "none", count |-> 0, size |-> 0, result |-> <<>>]

\* no request, no response body, the store and the helpers untouched
ExtIdle ==
    /\ sent = <<>>
    /\ streamPc = "none"
    /\ wire = <<>>
    /\ buffer = <<>>
    /\ handled = <<>>
    /\ store = initialStore
    /\ consecutiveErrors = 0
    /\ view = NoView
    /\ nReruns = 0
    /\ pstate = initialPipelineState

J8_Next ==
    \/ J8_run
    \/ J8_StartStage
    \/ \E r \in ResultChoices(stage) : J8_FnResolves(r)
    \/ \E kind \in FailureKinds : J8_FnRejects(kind)
    \/ J8_BackoffElapsed
    \/ J8_cancel
    \/ J8_getState

-----------------------------------------------------------------------------
(* J7: the Joker of src/unnamed/part_007                                    *)

J7_initialStep ==
    [status |-> "pending", progress |-> 0, startedAt |-> "null",
     completedAt |-> "null", error |-> "null"]

\* this.state.steps[step] = { status, progress, error }: the record is
\* replaced, so startedAt and completedAt are no longer there; an omitted
\* error argument is undefined
J7_updateStepStatus(stp, s, st, progress, err) ==
    [stp EXCEPT ![s] = [status |-> st, progress |-> progress, error |-> err,
                        startedAt |-> "undefined", completedAt |-> "undefined"]]

\* this.state.costs[step] += cost; this.state.costs.total += cost
J7_addCost(c, s, cost) ==
    [c EXCEPT ![s] = @ + cost, !.total = @ + cost]

\* this.state.qualityGates.push(gate): the constructor never creates
\* state.qualityGates, so the property read yields undefined and the call
\* throws a TypeError
J7_addQualityGateThrows(gates) == gates = "undefined"

\* options.maxRetries ?? 3
J7_DEFAULT_MAX_RETRIES == 3

\* Math.min(1000 * Math.pow(2, attempt - 1), 10000)
J7_backoffMs(k) == Min(1000 * (2 ^ (k - 1)), 10000)

\* the costs a J7 provider may report with its result, in cents
CostChoices == {0, 7}

\* what the catch block of run() appends and notifies: logger.error, then
\* updateStepStatus, endTime and error, emitStateChange; with currentStep
\* still null only the log entry is written before the TypeError
J7_catchEvents(cur) ==
    IF cur = "null"
      THEN <<"log">>
      ELSE <<"log", "step", "notify", "state", "notify">>

\* the catch block of run().  With currentStep still null the argument
\* this.state.steps[currentStep].progress throws inside the catch block and
\* run() rejects with that TypeError, the state left as it was.
J7_runCatch(msg) ==
    /\ pc' = "rejected"
    /\ IF currentStep = "null"
         THEN /\ runError' = "TypeError"
              /\ UNCHANGED <<steps, finishedAt, error>>
         ELSE /\ steps' = J7_updateStepStatus(steps, currentStep, "failed",
                                              steps[currentStep].progress, msg)
              /\ finishedAt' = "time"
              /\ error' = msg
              /\ runError' = msg

\* the components that run a part_007 Joker: the object alone, or the one the
\* route constructs with { productUrl, onStateChange }
J7s == {"J7", "RT"}

\* an SSE message by what its reader looks at: the type, data.status, and for
\* a log message which entry of the logger it carries (its index)
SSEMessage(type, st, n) == [type |-> type, status |-> st, log |-> n]

\* the route's onStateChange: step_update with state.status, the last entry
\* of state.logs if there is one, cost_update
RT_onStateChange(st, nLogs) ==
    <<SSEMessage("step_update", st, 0)>>
      \o (IF nLogs > 0 THEN <<SSEMessage("log", "none", nLogs)>> ELSE <<>>)
      \o <<SSEMessage("cost_update", "none", 0)>>

RECURSIVE RT_Notified(_, _, _)
\* what onStateChange sends during a step of the Joker whose mutations and
\* notifications are ev, the logger holding n entries when the step begins
RT_Notified(ev, st, n) ==
    IF ev = <<>>
      THEN <<>>
      ELSE (IF Head(ev) = "notify" THEN RT_onStateChange(st, n) ELSE <<>>)
             \o RT_Notified(Tail(ev), st, IF Head(ev) = "log" THEN n + 1 ELSE n)

\* the route's side of a step of its Joker: the handler answers an invalid
\* productUrl with 400 and constructs nothing; otherwise it opens the
\* stream, sends 'Pipeline started' before it calls run(), and onStateChange
\* sends on every notification
RT_sendMessage ==
    IF impl = "RT"
      THEN /\ input.productUrl
           /\ sent' = sent
                        \o (IF pc = "idle"
                              THEN <<SSEMessage("step_update", "running", 0)>>
                              ELSE <<>>)
                        \o RT_Notified(events', status, Len(logs))
           /\ streamPc' = "open"
      ELSE UNCHANGED routeVars

\* run() up to the first provider call: checkCancelled, the scraping step
\* marked running, attempt 1 of retryWithBackoff
J7_run ==
    /\ impl \in J7s
    /\ UNCHANGED <<nCancels, clientVars>>
    /\ pc = "idle"
    /\ stage' = "scraping"
    /\ IF cancelled
         THEN /\ J7_runCatch("Pipeline cancelled")
              /\ UNCHANGED <<currentStep, attempt, calls, invoked>>
         ELSE /\ steps' = J7_updateStepStatus(steps, "scraping", "running", 0,
                                              "undefined")
              /\ currentStep' = "scraping"
              /\ attempt' = 1
              /\ calls' = 1
              /\ invoked' = invoked \cup {"scraping"}
              /\ pc' = "inflight"
              /\ UNCHANGED <<finishedAt, error, runError>>
    /\ UNCHANGED <<impl, uiVars, consecutiveErrors, view, nReruns, pstate, status, costs, cancelled, retryCount, maxRetries, dataVars,
                   qualityGates, startedAt, slept, lastFailure, cancelPc, nUpdates>>
    /\ IF cancelled
         THEN /\ events' = <<"log">> \o J7_catchEvents(currentStep)
              /\ logs' = logs \o <<createLogEntry("scraping", "info"),
                                    createLogEntry(currentStep, "error")>>
              /\ UNCHANGED <<snapshot, stateLogs>>
         ELSE /\ events' = <<"log", "step", "notify", "log">>
              /\ logs' = logs \o <<createLogEntry("scraping", "info"),
                                    createLogEntry("scraping", "info")>>
              /\ stateLogs' = J7_emitStateChange(
                                  Append(logs, createLogEntry("scraping", "info")))
              /\ snapshot' = HandOver(snapshot, J7_SharedFields, status,
                                      "scraping", steps', costs)
    /\ RT_sendMessage

\* retryWithBackoff: after a failed attempt, is there another one?
J7_AttemptsRemain(k, maxAttempts) == k < maxAttempts

\* the provider call rejects: retryWithBackoff's catch
J7_FnRejects(kind) ==
    /\ impl \in J7s
    /\ UNCHANGED <<nCancels, clientVars>>
    /\ pc = "inflight"
    /\ kind \in FailureKinds
    /\ lastFailure' = kind
    /\ IF J7_AttemptsRemain(attempt, maxRetries)
         THEN /\ slept' = Append(slept, J7_backoffMs(attempt))
              /\ pc' = "backoff"
              /\ UNCHANGED <<steps, finishedAt, error, runError>>
         ELSE /\ J7_runCatch("provider error")
              /\ UNCHANGED slept
    /\ UNCHANGED <<impl, uiVars, consecutiveErrors, view, nReruns, pstate, stage, status, currentStep, costs, cancelled, retryCount,
                   attempt, maxRetries, dataVars, qualityGates, startedAt, calls,
                   invoked, cancelPc, nUpdates>>
    /\ IF J7_AttemptsRemain(attempt, maxRetries)
         THEN /\ events' = <<"log", "log">>
              /\ logs' = logs \o <<createLogEntry(stage, "warn"),
                                    createLogEntry(stage, "info")>>
              /\ UNCHANGED stateLogs
         ELSE /\ events' = <<"log">> \o J7_catchEvents(currentStep)
              /\ logs' = logs \o <<createLogEntry(stage, "warn"),
                                    createLogEntry(currentStep, "error")>>
              /\ stateLogs' = J7_emitStateChange(logs')
    /\ UNCHANGED snapshot
    /\ RT_sendMessage

\* the backoff timer fires: the loop goes to its next attempt and calls fn()
J7_BackoffElapsed ==
    /\ impl \in J7s
    /\ UNCHANGED <<logs, snapshot, nCancels, stateLogs, clientVars>>
    /\ pc = "backoff"
    /\ attempt' = attempt + 1
    /\ calls' = calls + 1
    /\ pc' = "inflight"
    /\ UNCHANGED <<impl, uiVars, consecutiveErrors, view, nReruns, pstate, stage, status, currentStep, steps, costs, error, cancelled,
                   retryCount, maxRetries, dataVars, qualityGates, startedAt,
                   finishedAt, runError, invoked, slept, lastFailure, cancelPc,
                   nUpdates>>
    /\ events' = <<>>
    /\ RT_sendMessage

\* the scraping call resolves with { data, cost, confidence }: productData
\* is stored, the cost is added, and addQualityGate throws, which run()'s
\* catch block turns into a failed scraping step.  Nothing after the
\* addQualityGate call of the scraping step is ever executed.
J7_FnResolves(data, cost) ==
    /\ impl \in J7s
    /\ UNCHANGED <<nCancels, clientVars>>
    /\ pc = "inflight"
    /\ data \in ProductChoices
    /\ cost \in CostChoices
    /\ lastFailure' = "none"
    /\ productData' = data
    /\ costs' = J7_addCost(costs, stage, cost)
    /\ J7_addQualityGateThrows(qualityGates)
    /\ J7_runCatch("TypeError")
    /\ UNCHANGED <<impl, uiVars, consecutiveErrors, view, nReruns, pstate, stage, status, currentStep, cancelled, retryCount, attempt,
                   maxRetries, visionAnalysis, transparentImageUrl, marketingAngles,
                   videoGenResult, finalVideoUrl, qualityGates, startedAt, calls,
                   invoked, slept, cancelPc, nUpdates>>
    /\ events' = <<"data", "cost", "notify">> \o J7_catchEvents(currentStep)
    /\ logs' = Append(logs, createLogEntry(currentStep, "error"))
    /\ stateLogs' = J7_emitStateChange(logs')
    /\ snapshot' = HandOver(snapshot, J7_SharedFields, status, currentStep,
                            steps, costs')
    /\ RT_sendMessage

\* cancel(): the flag is set (and a warning logged); the state is not touched
J7_cancel ==
    /\ impl = "J7"
    /\ UNCHANGED clientVars
    /\ nCancels < MaxCancels
    /\ nCancels' = nCancels + 1
    /\ Suspended
    /\ cancelled' = TRUE
    /\ cancelPc' = IF cancelPc = "none" THEN pc ELSE cancelPc
    /\ UNCHANGED <<impl, extVars, pc, stage, status, currentStep, steps, costs, error,
                   retryCount, attempt, maxRetries, dataVars, qualityGates, startedAt,
                   finishedAt, runError, calls, invoked, slept, lastFailure, nUpdates>>
    /\ events' = <<"log", "notify">>
    /\ logs' = Append(logs, createLogEntry(currentStep, "warn"))
    /\ stateLogs' = J7_emitStateChange(logs')
    /\ snapshot' = HandOver(snapshot, J7_SharedFields, status, currentStep,
                            steps, costs)

\* getState() before any notification: the caller is handed { ...this.state }
J7_getState ==
    /\ impl = "J7"
    /\ Suspended
    /\ ~snapshot.handed
    /\ snapshot' = HandOver(snapshot, J7_SharedFields, status, currentStep,
                            steps, costs)
    /\ events' = <<>>
    /\ UNCHANGED <<impl, extVars, pc, stage, status, currentStep, steps, costs, error,
                   cancelled, retryCount, attempt, maxRetries, dataVars,
                   qualityGates, startedAt, finishedAt, runError, calls, invoked,
                   slept, lastFailure, cancelPc, nUpdates, logs, nCancels,
                   stateLogs, clientVars>>

J7_Init ==
    /\ impl = "J7"
    /\ status = "idle"
    /\ currentStep = "null"
    /\ steps = [s \in Steps |-> J7_initialStep]
    /\ costs = ZeroCosts
    /\ error = "undefined"
    /\ startedAt = "time"
    /\ finishedAt = "null"
    /\ productData = "null"
    /\ visionAnalysis = "null"
    /\ transparentImageUrl = "undefined"
    /\ marketingAngles = "none"
    /\ videoGenResult = "null"
    /\ finalVideoUrl = "undefined"
    /\ qualityGates = "undefined"
    /\ cancelled = FALSE
    /\ retryCount = [s \in Steps |-> 0]
    /\ maxRetries \in 1..MaxConfiguredAttempts
    /\ attempt = 0
    /\ stateLogs = EmptyStateLogs

J7_Next ==
    \/ J7_run
    \/ \E data \in ProductChoices, cost \in CostChoices : J7_FnResolves(data, cost)
    \/ \E kind \in FailureKinds : J7_FnRejects(kind)
    \/ J7_BackoffElapsed
    \/ J7_cancel
    \/ J7_getState

-----------------------------------------------------------------------------
(* TY: the state helpers of src/src/lib/types.ts                            *)

StatusValues == {"pending", "running", "success", "failed", "retrying"}

\* the stages the helper calls of a behaviour are applied to
TY_Steps == {"scraping", "vision"}

TY_initialStep ==
    [status |-> "pending", progress |-> 0, startedAt |-> "null",
     completedAt |-> "null", error |-> "null"]

\* new Date().toISOString() at the n-th call of a behaviour
TY_Instants == <<"t1", "t2", "t3">>

TY_now == TY_Instants[nUpdates + 1]

\* updateStepStatus with the test of state.steps[step].startedAt left out
updateStepStatus_AlwaysStamps(stp, cur, s, st, progress, err, now) ==
    LET spread == Spread(stp[s], [status |-> st, progress |-> progress, error |-> err])
        started == IF st = "running"
                     THEN [spread EXCEPT !.startedAt = now]
                     ELSE spread
        updatedStep == IF st \in {"success", "failed"}
                         THEN [started EXCEPT !.completedAt = now, !.progress = 100]
                         ELSE started
    IN  [currentStep |-> IF st = "running" THEN s ELSE cur,
         steps |-> [stp EXCEPT ![s] = updatedStep],
         input |-> [currentStep |-> cur, steps |-> stp]]

\* updateStepStatus(state, step, status, progress, error): the new steps and
\* currentStep (the other fields of the state are copied), and what the
\* object passed as state holds after the call (the function assigns to
\* updatedStep and to the object literals it builds, never to state)
updateStepStatus(stp, cur, s, st, progress, err, now) ==
    LET spread == Spread(stp[s], [status |-> st, progress |-> progress, error |-> err])
        started == IF st = "running" /\ ~NonNull(stp[s].startedAt)
                     THEN [spread EXCEPT !.startedAt = now]
                     ELSE spread
        updatedStep == IF st \in {"success", "failed"}
                         THEN [started EXCEPT !.completedAt = now, !.progress = 100]
                         ELSE started
    IN  [currentStep |-> IF st = "running" THEN s ELSE cur,
         steps |-> [stp EXCEPT ![s] = updatedStep],
         input |-> [currentStep |-> cur, steps |-> stp]]

\* a call state = updateStepStatus(state, s, st, progress, err); snapshot
\* keeps the object that was passed in
TY_updateStepStatus(s, st, progress, err) ==
    /\ impl = "TY"
    /\ UNCHANGED <<events, logs, nCancels, stateLogs, clientVars>>
    /\ nUpdates < MaxUpdates
    /\ nUpdates' = nUpdates + 1
    /\ LET new == updateStepStatus(steps, currentStep, s, st, progress, err, TY_now)
       IN  /\ steps' = new.steps
           /\ currentStep' = new.currentStep
           /\ snapshot' = [snapshot EXCEPT !.currentStep = new.input.currentStep,
                                           !.steps = new.input.steps]
    /\ UNCHANGED <<impl, extVars, pc, stage, status, costs, error, cancelled, retryCount,
                   attempt, maxRetries, dataVars, qualityGates, startedAt, finishedAt,
                   runError, calls, invoked, slept, lastFailure, cancelPc>>

TY_Init ==
    /\ impl = "TY"
    /\ status = "idle"
    /\ currentStep = "null"
    /\ steps = [s \in Steps |-> TY_initialStep]
    /\ costs = ZeroCosts
    /\ error = "undefined"
    /\ startedAt = "null"
    /\ finishedAt = "null"
    /\ productData = "null"
    /\ visionAnalysis = "null"
    /\ transparentImageUrl = "undefined"
    /\ marketingAngles = "none"
    /\ videoGenResult = "null"
    /\ finalVideoUrl = "undefined"
    /\ qualityGates = "undefined"
    /\ cancelled = FALSE
    /\ retryCount = [s \in Steps |-> 0]
    /\ maxRetries = 0
    /\ attempt = 0
    /\ stateLogs = EmptyStateLogs

TY_Next ==
    \E s \in TY_Steps, st \in StatusValues, progress \in {0, 50},
       err \in {"null", "provider error"} :
        TY_updateStepStatus(s, st, progress, err)

-----------------------------------------------------------------------------
(* UT: retryWithBackoff of src/unnamed/part_004                             *)

\* the default of the parameter baseDelay
UT_BASE_DELAY == 1000

\* baseDelay * Math.pow(2, retries - 1)
UT_delayMs(retries, baseDelay) == baseDelay * (2 ^ (retries - 1))

\* retryWithBackoff(fn, maxRetries): the first attempt()
UT_retryWithBackoff ==
    /\ impl = "UT"
    /\ UNCHANGED <<obsVars, clientVars>>
    /\ pc = "idle"
    /\ attempt' = 0
    /\ calls' = 1
    /\ pc' = "inflight"
    /\ UNCHANGED <<impl, extVars, stage, status, currentStep, steps, costs, error, cancelled,
                   retryCount, maxRetries, dataVars, qualityGates, startedAt,
                   finishedAt, runError, invoked, slept, lastFailure, cancelPc,
                   nUpdates>>

UT_FnResolves ==
    /\ impl = "UT"
    /\ UNCHANGED <<obsVars, clientVars>>
    /\ pc = "inflight"
    /\ lastFailure' = "none"
    /\ pc' = "resolved"
    /\ UNCHANGED <<impl, extVars, stage, status, currentStep, steps, costs, error, cancelled,
                   retryCount, attempt, maxRetries, dataVars, qualityGates, startedAt,
                   finishedAt, runError, calls, invoked, slept, cancelPc, nUpdates>>

\* attempt()'s catch: is the promise rejected now?
UT_GivesUp(retries, maxR) == retries >= maxR

UT_FnRejects(kind) ==
    /\ impl = "UT"
    /\ UNCHANGED <<obsVars, clientVars>>
    /\ pc = "inflight"
    /\ kind \in FailureKinds
    /\ lastFailure' = kind
    /\ attempt' = attempt + 1
    /\ IF UT_GivesUp(attempt + 1, maxRetries)
         THEN /\ runError' = "provider error"
              /\ pc' = "rejected"
              /\ UNCHANGED slept
         ELSE /\ slept' = Append(slept, UT_delayMs(attempt + 1, UT_BASE_DELAY))
              /\ pc' = "backoff"
              /\ UNCHANGED runError
    /\ UNCHANGED <<impl, extVars, stage, status, currentStep, steps, costs, error, cancelled,
                   retryCount, maxRetries, dataVars, qualityGates, startedAt,
                   finishedAt, calls, invoked, cancelPc, nUpdates>>

UT_BackoffElapsed ==
    /\ impl = "UT"
    /\ UNCHANGED <<obsVars, clientVars>>
    /\ pc = "backoff"
    /\ calls' = calls + 1
    /\ pc' = "inflight"
    /\ UNCHANGED <<impl, extVars, stage, status, currentStep, steps, costs, error, cancelled,
                   retryCount, attempt, maxRetries, dataVars, qualityGates, startedAt,
                   finishedAt, runError, invoked, slept, lastFailure, cancelPc,
                   nUpdates>>

UT_Init ==
    /\ impl = "UT"
    /\ status = "idle"
    /\ currentStep = "null"
    /\ steps = [s \in Steps |-> TY_initialStep]
    /\ costs = ZeroCosts
    /\ error = "undefined"
    /\ startedAt = "null"
    /\ finishedAt = "null"
    /\ productData = "null"
    /\ visionAnalysis = "null"
    /\ transparentImageUrl = "undefined"
    /\ marketingAngles = "none"
    /\ videoGenResult = "null"
    /\ finalVideoUrl = "undefined"
    /\ qualityGates = "undefined"
    /\ cancelled = FALSE
    /\ retryCount = [s \in Steps |-> 0]
    /\ maxRetries \in 1..MaxConfiguredAttempts
    /\ attempt = 0
    /\ stateLogs = EmptyStateLogs

UT_Next ==
    \/ UT_retryWithBackoff
    \/ UT_FnResolves
    \/ \E kind \in FailureKinds : UT_FnRejects(kind)
    \/ UT_BackoffElapsed

-----------------------------------------------------------------------------
(* The provider clients: the retry loop around one HTTP request             *)
(*   MI  callMistralAPIWithRetry of src/unnamed/part_005,                   *)
(*   VG  makeVidgoRequest of src/src/lib/pipeline/vidgo.ts,                 *)
(*   OV  callVisionAPIWithRetry of src/src/lib/pipeline/vision.ts,          *)
(*   RB  removeBackground / callRemoveBgAPI of src/unnamed/part_006,        *)
(*   RS  removeBackground of src/src/lib/pipeline/removebg.ts,              *)
(*   MC  two runs using the providers' module-level cost counters,          *)
(*   G5  generateMarketingAngles of src/unnamed/part_005,                   *)
(*   G6  generateMarketingAngles of src/unnamed/part_006,                   *)
(*   RT  the POST handler of /api/pipeline (src/unnamed/part_009), which    *)
(*       runs a part_007 Joker and streams what it is notified of,          *)
(*   HP  HomePage.handleSubmit (src/unnamed/part_009) and                   *)
(*   DB  Dashboard.handleGenerate (src/unnamed/part_001), the two readers   *)
(*       of that stream,                                                    *)
(*   PL  pollForCompletion of src/src/lib/pipeline/vidgo.ts,                *)
(*   SC  setCosts / reset of the store (src/unnamed/part_008),              *)
(*   UC  updateCosts of src/src/lib/types.ts,                               *)
(*   LG  the read views of PipelineLogger (src/unnamed/part_008).           *)

\* the variables of the orchestrators, which the clients leave alone
orchVars == <<stage, status, currentStep, steps, costs, error, cancelled,
              retryCount, dataVars, qualityGates, startedAt, finishedAt, invoked,
              cancelPc, nUpdates>>

\* the orchestrator variables of a behaviour that exercises no orchestrator
NoOrchestrator ==
    /\ status = "idle"
    /\ currentStep = "null"
    /\ steps = [s \in Steps |-> TY_initialStep]
    /\ costs = ZeroCosts
    /\ error = "undefined"
    /\ startedAt = "null"
    /\ finishedAt = "null"
    /\ productData = "null"
    /\ visionAnalysis = "null"
    /\ transparentImageUrl = "undefined"
    /\ marketingAngles = "none"
    /\ videoGenResult = "null"
    /\ finalVideoUrl = "undefined"
    /\ qualityGates = "undefined"
    /\ cancelled = FALSE
    /\ retryCount = [s \in Steps |-> 0]
    /\ stateLogs = EmptyStateLogs

Clients == {"MI", "VG", "OV"}

\* how one HTTP request can fail: rate limit, server error, a client error
\* (400, 402, 403), no response at all (network error, timeout)
HttpFailures == {"429", "5xx", "4xx", "network"}

MI_MAX_RETRIES == 3
VG_MAX_RETRIES == 3
OV_MAX_RETRIES == 3
RB_MAX_RETRIES == 3

MI_RETRY_DELAY_BASE == 1000
VG_RETRY_DELAY_BASE == 2000
OV_RETRY_DELAY_BASE == 2000
RB_RETRY_DELAY_BASE == 2000

ClientMaxRetries(c) ==
    CASE c = "MI" -> MI_MAX_RETRIES
      [] c = "VG" -> VG_MAX_RETRIES
      [] c = "OV" -> OV_MAX_RETRIES
      [] c = "RB" -> RB_MAX_RETRIES

\* which failures a client tries again: Mistral's catch retries whatever was
\* thrown; Vidgo and Remove.bg retry 429 and 5xx; Vision retries 429, 500, 503
ClientRetryable(c, failure) ==
    IF c = "MI" THEN TRUE ELSE failure \in {"429", "5xx"}

\* `if (attempt < MAX_RETRIES)` with attempt counted from 0
ClientRetries(c, failure, att) ==
    ClientRetryable(c, failure) /\ att < ClientMaxRetries(c)

\* RETRY_DELAY_BASE * Math.pow(2, attempt), doubled for a 429 by Vidgo and
\* Remove.bg
ClientDelay(c, failure, att) ==
    CASE c = "MI" -> MI_RETRY_DELAY_BASE * (2 ^ att)
      [] c = "OV" -> OV_RETRY_DELAY_BASE * (2 ^ att)
      [] c = "VG" -> IF failure = "429" THEN VG_RETRY_DELAY_BASE * (2 ^ att) * 2
                                        ELSE VG_RETRY_DELAY_BASE * (2 ^ att)
      [] c = "RB" -> IF failure = "429" THEN RB_RETRY_DELAY_BASE * (2 ^ att) * 2
                                        ELSE RB_RETRY_DELAY_BASE * (2 ^ att)

\* the client function is called: attempt 0, the first request goes out
CL_Call ==
    /\ impl \in Clients
    /\ pc = "idle"
    /\ attempt' = 0
    /\ calls' = 1
    /\ pc' = "inflight"
    /\ UNCHANGED <<impl, extVars, orchVars, obsVars, clientVars, maxRetries, runError,
                   slept, lastFailure>>

\* the request is answered and the answer is accepted
CL_RequestSucceeds ==
    /\ impl \in Clients
    /\ pc = "inflight"
    /\ lastFailure' = "none"
    /\ pc' = "resolved"
    /\ UNCHANGED <<impl, extVars, orchVars, obsVars, clientVars, maxRetries, runError,
                   attempt, calls, slept>>

\* the request fails: the catch block either sleeps and calls the function
\* again with attempt + 1, or throws
CL_RequestFails(failure) ==
    /\ impl \in Clients
    /\ pc = "inflight"
    /\ failure \in HttpFailures
    /\ lastFailure' = failure
    /\ IF ClientRetries(impl, failure, attempt)
         THEN /\ slept' = Append(slept, ClientDelay(impl, failure, attempt))
              /\ pc' = "backoff"
              /\ UNCHANGED runError
         ELSE /\ runError' = "provider error"
              /\ pc' = "rejected"
              /\ UNCHANGED slept
    /\ UNCHANGED <<impl, extVars, orchVars, obsVars, clientVars, maxRetries, attempt, calls>>

\* the delay is over: the recursive call sends the next request
CL_BackoffElapsed ==
    /\ impl \in Clients
    /\ pc = "backoff"
    /\ attempt' = attempt + 1
    /\ calls' = calls + 1
    /\ pc' = "inflight"
    /\ UNCHANGED <<impl, extVars, orchVars, obsVars, clientVars, maxRetries, runError,
                   slept, lastFailure>>

CL_Init ==
    /\ impl \in Clients
    /\ NoOrchestrator
    /\ input = NoInput
    /\ maxRetries = ClientMaxRetries(impl)
    /\ attempt = 0

CL_Next ==
    \/ CL_Call
    \/ CL_RequestSucceeds
    \/ \E failure \in HttpFailures : CL_RequestFails(failure)
    \/ CL_BackoffElapsed

-----------------------------------------------------------------------------
(* removeBackground                                                          *)

\* the image argument: an http(s) URL, a data: URL, bare base64, or neither
ImageKinds == {"url", "dataUrl", "rawBase64", "invalid"}

\* new URL(str) does not throw: a data: URL parses as a URL too
isValidUrl(image) == image \in {"url", "dataUrl"}

\* /^data:image\/(png|jpeg|jpg|webp);base64,/ or /^[A-Za-z0-9+/]+=*$/
isBase64Image(image) == image \in {"dataUrl", "rawBase64"}

\* what the remove.bg answer decodes to
PngKinds == {"alpha", "noAlpha", "notPng"}

RB_COST_PER_IMAGE == 20
RS_COST_PER_IMAGE == 20

\* fallbackUrl: the input itself, or bare base64 turned into a data: URL by
\* convertBase64ToUrl
FallbackUrl(image) ==
    IF isBase64Image(image) /\ image # "dataUrl"
      THEN "data:image/png;base64,<input>"
      ELSE "<input>"

\* the object returned when the image is handed back unprocessed
FallbackResult(image) ==
    [settled |-> "resolved", transparentUrl |-> FallbackUrl(image), cost |-> 0,
     warning |-> TRUE]

\* the object returned for a processed image
ProcessedResult(cost) ==
    [settled |-> "resolved", transparentUrl |-> "data:image/png;base64,<result>",
     cost |-> cost, warning |-> FALSE]

\* the promise rejects with a BackgroundRemovalError
RejectedResult ==
    [settled |-> "rejected", transparentUrl |-> "none", cost |-> 0,
     warning |-> FALSE]

\* part_006 removeBackground up to its first request: without an API key and
\* for an input that is neither URL nor base64 the fallback is returned
RB_removeBackground ==
    /\ impl = "RB"
    /\ pc = "idle"
    /\ attempt' = 0
    /\ IF ~input.apiKey \/ ~(isValidUrl(input.image) \/ isBase64Image(input.image))
         THEN /\ lastFailure' = IF ~input.apiKey THEN "no api key" ELSE "invalid input"
              /\ result' = FallbackResult(input.image)
              /\ pc' = "resolved"
              /\ UNCHANGED calls
         ELSE /\ calls' = 1
              /\ pc' = "inflight"
              /\ UNCHANGED <<lastFailure, result>>
    /\ UNCHANGED <<impl, extVars, orchVars, obsVars, maxRetries, runError, slept, totalCost,
                   runPc, tracked, input, gmVars>>

\* the request is answered: validatePngWithAlpha throws for what is no PNG,
\* which the catch block turns into the fallback; otherwise the cost is added
\* to the module's totalCost
RB_RequestSucceeds(png) ==
    /\ impl = "RB"
    /\ pc = "inflight"
    /\ png \in PngKinds
    /\ pc' = "resolved"
    /\ IF png = "notPng"
         THEN /\ lastFailure' = "invalid png"
              /\ result' = FallbackResult(input.image)
              /\ UNCHANGED totalCost
         ELSE /\ lastFailure' = "none"
              /\ result' = ProcessedResult(RB_COST_PER_IMAGE)
              /\ totalCost' = [totalCost EXCEPT !["removebg"] = @ + RB_COST_PER_IMAGE]
    /\ UNCHANGED <<impl, extVars, orchVars, obsVars, maxRetries, runError, attempt, calls,
                   slept, runPc, tracked, input, gmVars>>

\* the request fails: callRemoveBgAPI retries or throws, and removeBackground
\* catches what it throws and returns the fallback
RB_RequestFails(failure) ==
    /\ impl = "RB"
    /\ pc = "inflight"
    /\ failure \in HttpFailures
    /\ lastFailure' = failure
    /\ IF ClientRetries("RB", failure, attempt)
         THEN /\ slept' = Append(slept, ClientDelay("RB", failure, attempt))
              /\ pc' = "backoff"
              /\ UNCHANGED result
         ELSE /\ result' = FallbackResult(input.image)
              /\ pc' = "resolved"
              /\ UNCHANGED slept
    /\ UNCHANGED <<impl, extVars, orchVars, obsVars, maxRetries, runError, attempt, calls,
                   totalCost, runPc, tracked, input, gmVars>>

RB_BackoffElapsed ==
    /\ impl = "RB"
    /\ pc = "backoff"
    /\ attempt' = attempt + 1
    /\ calls' = calls + 1
    /\ pc' = "inflight"
    /\ UNCHANGED <<impl, extVars, orchVars, obsVars, clientVars, maxRetries, runError,
                   slept, lastFailure>>

RB_Init ==
    /\ impl = "RB"
    /\ NoOrchestrator
    /\ input \in [image : ImageKinds, apiKey : BOOLEAN]
    /\ maxRetries = RB_MAX_RETRIES
    /\ attempt = 0

RB_Next ==
    \/ RB_removeBackground
    \/ \E png \in PngKinds : RB_RequestSucceeds(png)
    \/ \E failure \in HttpFailures : RB_RequestFails(failure)
    \/ RB_BackoffElapsed

\* removebg.ts removeBackground up to its request: it throws without an API
\* key; an input that is neither URL nor base64 throws inside the try block
\* and ends in the fallback
RS_removeBackground ==
    /\ impl = "RS"
    /\ pc = "idle"
    /\ IF ~input.apiKey
         THEN /\ lastFailure' = "no api key"
              /\ result' = RejectedResult
              /\ runError' = "BackgroundRemovalError"
              /\ pc' = "rejected"
              /\ UNCHANGED calls
         ELSE IF ~(isValidUrl(input.image) \/ isBase64Image(input.image))
         THEN /\ lastFailure' = "invalid input"
              /\ result' = FallbackResult(input.image)
              /\ pc' = "resolved"
              /\ UNCHANGED <<calls, runError>>
         ELSE /\ calls' = 1
              /\ pc' = "inflight"
              /\ UNCHANGED <<lastFailure, result, runError>>
    /\ UNCHANGED <<impl, extVars, orchVars, obsVars, maxRetries, attempt, slept, totalCost,
                   runPc, tracked, input, gmVars>>

RS_RequestSucceeds(png) ==
    /\ impl = "RS"
    /\ pc = "inflight"
    /\ png \in PngKinds
    /\ pc' = "resolved"
    /\ IF png = "notPng"
         THEN /\ lastFailure' = "invalid png"
              /\ result' = FallbackResult(input.image)
         ELSE /\ lastFailure' = "none"
              /\ result' = ProcessedResult(RS_COST_PER_IMAGE)
    /\ UNCHANGED <<impl, extVars, orchVars, obsVars, maxRetries, runError, attempt, calls,
                   slept, totalCost, runPc, tracked, input, gmVars>>

\* the status codes for which the catch block of removebg.ts throws
RS_Rethrown(failure) == failure = "4xx"

\* the request fails: 400, 402 and 403 are thrown on, everything else ends
\* in the fallback; there is no retry
RS_RequestFails(failure) ==
    /\ impl = "RS"
    /\ pc = "inflight"
    /\ failure \in HttpFailures
    /\ lastFailure' = failure
    /\ IF RS_Rethrown(failure)
         THEN /\ result' = RejectedResult
              /\ runError' = "BackgroundRemovalError"
              /\ pc' = "rejected"
         ELSE /\ result' = FallbackResult(input.image)
              /\ pc' = "resolved"
              /\ UNCHANGED runError
    /\ UNCHANGED <<impl, extVars, orchVars, obsVars, maxRetries, attempt, calls, slept,
                   totalCost, runPc, tracked, input, gmVars>>

RS_Init ==
    /\ impl = "RS"
    /\ NoOrchestrator
    /\ input \in [image : ImageKinds, apiKey : BOOLEAN]
    /\ maxRetries = 0
    /\ attempt = 0

RS_Next ==
    \/ RS_removeBackground
    \/ \E png \in PngKinds : RS_RequestSucceeds(png)
    \/ \E failure \in HttpFailures : RS_RequestFails(failure)

-----------------------------------------------------------------------------
(* MC: two runs in one process and the providers' module-level counters     *)

APIFY_COST_PER_CALL == 1
VIDGO_COST_PER_REQUEST == 3

\* getTotalCost() of a provider module
getTotalCost(m) == totalCost[m]

\* totalCost += cost in a provider module, on behalf of run r
MC_track(r, m, cost) ==
    /\ totalCost' = [totalCost EXCEPT ![m] = @ + cost]
    /\ tracked' = [tracked EXCEPT ![r][m] = @ + cost]

\* resetCostTracking() of module m, called for run r before it starts
MC_resetCostTracking(r, m) ==
    /\ impl = "MC"
    /\ runPc[r] = "idle"
    /\ totalCost[m] # 0
    /\ totalCost' = [totalCost EXCEPT ![m] = 0]
    /\ tracked' = [tracked EXCEPT ![r][m] = 0]
    /\ UNCHANGED <<impl, extVars, pc, orchVars, obsVars, maxRetries, attempt, runError,
                   calls, slept, lastFailure, runPc, input, gmVars, result>>

\* run r starts and calls scrapeProduct
MC_run(r) ==
    /\ impl = "MC"
    /\ runPc[r] = "idle"
    /\ runPc' = [runPc EXCEPT ![r] = "scraping"]
    /\ UNCHANGED <<impl, extVars, pc, orchVars, obsVars, maxRetries, attempt, runError,
                   calls, slept, lastFailure, totalCost, tracked, input, gmVars, result>>

\* scrapeWithApify of run r has its data: the call is counted, the run goes
\* on to generateVideo
MC_scrapeResolves(r) ==
    /\ impl = "MC"
    /\ runPc[r] = "scraping"
    /\ MC_track(r, "apify", APIFY_COST_PER_CALL)
    /\ runPc' = [runPc EXCEPT ![r] = "video"]
    /\ UNCHANGED <<impl, extVars, pc, orchVars, obsVars, maxRetries, attempt, runError,
                   calls, slept, lastFailure, input, gmVars, result>>

\* generateVideo of run r has its video: the request is counted
MC_videoResolves(r) ==
    /\ impl = "MC"
    /\ runPc[r] = "video"
    /\ MC_track(r, "vidgo", VIDGO_COST_PER_REQUEST)
    /\ runPc' = [runPc EXCEPT ![r] = "done"]
    /\ UNCHANGED <<impl, extVars, pc, orchVars, obsVars, maxRetries, attempt, runError,
                   calls, slept, lastFailure, input, gmVars, result>>

\* a provider call of run r throws: nothing is counted, the run is over
MC_providerRejects(r) ==
    /\ impl = "MC"
    /\ runPc[r] \in {"scraping", "video"}
    /\ runPc' = [runPc EXCEPT ![r] = "done"]
    /\ UNCHANGED <<impl, extVars, pc, orchVars, obsVars, maxRetries, attempt, runError,
                   calls, slept, lastFailure, totalCost, tracked, input, gmVars, result>>

MC_Init ==
    /\ impl = "MC"
    /\ NoOrchestrator
    /\ input = NoInput
    /\ maxRetries = 0
    /\ attempt = 0

MC_Next ==
    \/ \E r \in Runs, m \in Modules : MC_resetCostTracking(r, m)
    \/ \E r \in Runs : MC_run(r)
    \/ \E r \in Runs : MC_scrapeResolves(r)
    \/ \E r \in Runs : MC_videoResolves(r)
    \/ \E r \in Runs : MC_providerRejects(r)

-----------------------------------------------------------------------------
(* generateMarketingAngles: the quality loop around the Mistral request    *)

GMs == {"G5", "G6"}

G5_MIN_QUALITY_SCORE == 7
G6_MIN_QUALITY_SCORE == 8

\* `qualityAttempt <= 2` in part_005, `attempt <= MAX_RETRIES` in part_006
G5_QUALITY_ATTEMPTS == 2
G6_MAX_RETRIES == 3

\* estimateCost(promptTokens, completionTokens) of one response, in cents
MISTRAL_COST == 1

\* calculateAverageQuality(response.angles) of a response that parses
QualityChoices == {6, 7, 9}

GM_MinQuality(c) == IF c = "G5" THEN G5_MIN_QUALITY_SCORE ELSE G6_MIN_QUALITY_SCORE

\* the number of iterations of the quality loop
GM_QualityAttempts(c) == IF c = "G5" THEN G5_QUALITY_ATTEMPTS ELSE G6_MAX_RETRIES

\* part_005 sends the request through callMistralAPIWithRetry; callMistralAPI
\* of part_006 has no retry of its own
GM_TransportRetries(c, failure, att) ==
    c = "G5" /\ ClientRetries("MI", failure, att)

\* the delay before the next iteration of the quality loop
GM_QualityDelay(c, qa) == IF c = "G5" THEN 2000 ELSE 1000 * qa

\* `if (averageQuality < MIN_QUALITY_SCORE) { ...; if (attempt < cap) continue }`:
\* does the loop go round again?  When it does not, the angles are returned.
GM_Regenerates(c, q, qa) == q < GM_MinQuality(c) /\ qa < GM_QualityAttempts(c)

\* generateMarketingAngles up to the first request of its first iteration
GM_generateMarketingAngles ==
    /\ impl \in GMs
    /\ pc = "idle"
    /\ IF ~input.apiKey
         THEN /\ lastFailure' = "no api key"
              /\ runError' = "MISTRAL_API_KEY environment variable is not set"
              /\ pc' = "rejected"
              /\ UNCHANGED <<qualityAttempt, attempt, calls>>
         ELSE /\ qualityAttempt' = 1
              /\ attempt' = 0
              /\ calls' = 1
              /\ pc' = "inflight"
              /\ UNCHANGED <<lastFailure, runError>>
    /\ UNCHANGED <<impl, extVars, orchVars, obsVars, maxRetries, slept, totalCost, runPc,
                   tracked, input, result, averageQuality>>

\* the request is answered with three valid angles of average quality q:
\* part_005 adds the cost; a low score starts the next iteration while one
\* is left, otherwise the angles are mapped and returned
GM_ResponseParsed(q) ==
    /\ impl \in GMs
    /\ pc = "inflight"
    /\ q \in QualityChoices
    /\ lastFailure' = "none"
    /\ averageQuality' = q
    /\ totalCost' = IF impl = "G5"
                      THEN [totalCost EXCEPT !["mistral"] = @ + MISTRAL_COST]
                      ELSE totalCost
    /\ IF GM_Regenerates(impl, q, qualityAttempt)
         THEN /\ slept' = Append(slept, GM_QualityDelay(impl, qualityAttempt))
              /\ pc' = "qualityDelay"
         ELSE /\ pc' = "resolved"
              /\ UNCHANGED slept
    /\ UNCHANGED <<impl, extVars, orchVars, obsVars, maxRetries, runError, attempt, calls,
                   runPc, tracked, input, result, qualityAttempt>>

\* the request fails (or its answer does not parse): the client retries, or
\* the catch block of the quality loop goes to the next iteration, or the
\* loop is over and the function throws
GM_RequestFails(failure) ==
    /\ impl \in GMs
    /\ pc = "inflight"
    /\ failure \in HttpFailures
    /\ lastFailure' = failure
    /\ IF GM_TransportRetries(impl, failure, attempt)
         THEN /\ slept' = Append(slept, ClientDelay("MI", failure, attempt))
              /\ pc' = "backoff"
              /\ UNCHANGED runError
         ELSE IF qualityAttempt < GM_QualityAttempts(impl)
         THEN /\ slept' = Append(slept, GM_QualityDelay(impl, qualityAttempt))
              /\ pc' = "qualityDelay"
              /\ UNCHANGED runError
         ELSE /\ runError' = "Failed to generate marketing angles"
              /\ pc' = "rejected"
              /\ UNCHANGED slept
    /\ UNCHANGED <<impl, extVars, orchVars, obsVars, maxRetries, attempt, calls, totalCost,
                   runPc, tracked, input, result, gmVars>>

\* the client's delay is over: callMistralAPIWithRetry calls itself
GM_BackoffElapsed ==
    /\ impl \in GMs
    /\ pc = "backoff"
    /\ attempt' = attempt + 1
    /\ calls' = calls + 1
    /\ pc' = "inflight"
    /\ UNCHANGED <<impl, extVars, orchVars, obsVars, clientVars, maxRetries, runError,
                   slept, lastFailure>>

\* the delay of the quality loop is over: the next iteration sends a request
GM_QualityDelayElapsed ==
    /\ impl \in GMs
    /\ pc = "qualityDelay"
    /\ qualityAttempt' = qualityAttempt + 1
    /\ attempt' = 0
    /\ calls' = calls + 1
    /\ pc' = "inflight"
    /\ UNCHANGED <<impl, extVars, orchVars, obsVars, maxRetries, runError, slept,
                   lastFailure, totalCost, runPc, tracked, input, result,
                   averageQuality>>

GM_Init ==
    /\ impl \in GMs
    /\ NoOrchestrator
    /\ input \in {[image |-> "none", apiKey |-> k] : k \in BOOLEAN}
    /\ maxRetries = IF impl = "G5" THEN MI_MAX_RETRIES ELSE 0
    /\ attempt = 0

GM_Next ==
    \/ GM_generateMarketingAngles
    \/ \E q \in QualityChoices : GM_ResponseParsed(q)
    \/ \E failure \in HttpFailures : GM_RequestFails(failure)
    \/ GM_BackoffElapsed
    \/ GM_QualityDelayElapsed

-----------------------------------------------------------------------------
(* RT: the POST handler of /api/pipeline                                    *)

\* RT_Terminal sending `complete` whatever the outcome
RT_Terminal_AlwaysComplete(p, st) == SSEMessage("complete", "success", 0)

\* the terminal message: `complete` when run() resolved with a state whose
\* status is 'success', `error` otherwise (a resolved run with another
\* status, or a rejected one)
RT_Terminal(p, st) ==
    IF p = "resolved" /\ st = "success"
      THEN SSEMessage("complete", "success", 0)
      ELSE SSEMessage("error", "failed", 0)

PingCount(msgs) == Cardinality({i \in 1..Len(msgs) : msgs[i].type = "ping"})

\* the request body has no usable productUrl: a 400 response, no stream
RT_BadRequest ==
    /\ impl = "RT"
    /\ pc = "idle"
    /\ streamPc = "none"
    /\ ~input.productUrl
    /\ streamPc' = "400"
    /\ UNCHANGED <<impl, pc, orchVars, obsVars, clientVars, attempt, maxRetries,
                   runError, calls, slept, lastFailure, sent, uiVars,
                   consecutiveErrors, view, nReruns, pstate>>

\* the keep-alive interval fires while run() is pending
RT_ping ==
    /\ impl = "RT"
    /\ pc \in {"inflight", "backoff"}
    /\ PingCount(sent) < MaxPings
    /\ sent' = Append(sent, SSEMessage("ping", "none", 0))
    /\ UNCHANGED <<impl, pc, orchVars, obsVars, clientVars, attempt, maxRetries,
                   runError, calls, slept, lastFailure, streamPc, uiVars,
                   consecutiveErrors, view, nReruns, pstate>>

\* run() has settled: the interval is cleared, the terminal message is sent
\* and the stream is closed
RT_runSettled ==
    /\ impl = "RT"
    /\ pc \in {"resolved", "rejected"}
    /\ streamPc = "open"
    /\ sent' = Append(sent, RT_Terminal(pc, status))
    /\ streamPc' = "closed"
    /\ UNCHANGED <<impl, pc, orchVars, obsVars, clientVars, attempt, maxRetries,
                   runError, calls, slept, lastFailure, uiVars,
                   consecutiveErrors, view, nReruns, pstate>>

\* the request has arrived; the Joker the handler constructs is given no
\* maxRetries and takes the default
RT_Init ==
    /\ impl = "RT"
    /\ input \in {[productUrl |-> b] : b \in BOOLEAN}
    /\ status = "idle"
    /\ currentStep = "null"
    /\ steps = [s \in Steps |-> J7_initialStep]
    /\ costs = ZeroCosts
    /\ error = "undefined"
    /\ startedAt = "time"
    /\ finishedAt = "null"
    /\ productData = "null"
    /\ visionAnalysis = "null"
    /\ transparentImageUrl = "undefined"
    /\ marketingAngles = "none"
    /\ videoGenResult = "null"
    /\ finalVideoUrl = "undefined"
    /\ qualityGates = "undefined"
    /\ cancelled = FALSE
    /\ retryCount = [s \in Steps |-> 0]
    /\ maxRetries = J7_DEFAULT_MAX_RETRIES
    /\ attempt = 0
    /\ stateLogs = EmptyStateLogs
    /\ sent = <<>>
    /\ streamPc = "none"
    /\ wire = <<>>
    /\ buffer = <<>>
    /\ handled = <<>>
    /\ store = initialStore
    /\ consecutiveErrors = 0
    /\ view = NoView
    /\ nReruns = 0
    /\ pstate = initialPipelineState

RT_Next ==
    \/ RT_BadRequest
    \/ RT_ping
    \/ RT_runSettled

-----------------------------------------------------------------------------
(* HP, DB: the browser side, HomePage.handleSubmit (src/unnamed/part_009)   *)
(* and Dashboard.handleGenerate (src/unnamed/part_001)                      *)

UIs == {"HP", "DB"}

\* a piece of the response text: a separator character, a part of a
\* payload, or the body of a payload (which says what the message is)
Tok(ch, type, st) == [ch |-> ch, type |-> type, status |-> st]

LF == Tok("LF", "", "")

\* 'data: ', which a read can cut in two
DataPrefix == <<Tok("da", "", ""), Tok("ta: ", "", "")>>

\* createSSEMessage(message): `data: ${JSON.stringify(message)}\n\n`
createSSEMessage(m) ==
    DataPrefix
      \o <<Tok("{", "", ""), Tok("body", m.type, m.status), Tok("}", "", "")>>
      \o <<LF, LF>>

\* `data: [DONE]\n\n`, the end marker Dashboard looks for
DoneFrame ==
    DataPrefix
      \o <<Tok("[", "", ""), Tok("body", "[DONE]", "none"), Tok("]", "", "")>>
      \o <<LF, LF>>

Frame(m) == IF m.type = "[DONE]" THEN DoneFrame ELSE createSSEMessage(m)

\* the messages a response body is made of: those the route sends (the
\* first step_update says running, the later ones carry the Joker's status)
\* and the events only Dashboard knows
StreamMessages ==
    {SSEMessage("step_update", "running", 0), SSEMessage("step_update", "idle", 0),
     SSEMessage("log", "none", 0), SSEMessage("complete", "success", 0),
     SSEMessage("error", "failed", 0), SSEMessage("status", "success", 0),
     SSEMessage("[DONE]", "none", 0)}

RECURSIVE Body(_)
\* the response text of a sequence of messages
Body(msgs) == IF msgs = <<>> THEN <<>> ELSE Frame(Head(msgs)) \o Body(Tail(msgs))

RECURSIVE SplitDouble(_, _)
\* chunk.split('\n\n'), with cur the line being collected
SplitDouble(s, cur) ==
    IF s = <<>>
      THEN <<cur>>
      ELSE IF Len(s) >= 2 /\ s[1] = LF /\ s[2] = LF
             THEN <<cur>> \o SplitDouble(SubSeq(s, 3, Len(s)), <<>>)
             ELSE SplitDouble(Tail(s), Append(cur, Head(s)))

RECURSIVE SplitSingle(_, _)
\* buffer.split('\n'), with cur the line being collected
SplitSingle(s, cur) ==
    IF s = <<>>
      THEN <<cur>>
      ELSE IF Head(s) = LF
             THEN <<cur>> \o SplitSingle(Tail(s), <<>>)
             ELSE SplitSingle(Tail(s), Append(cur, Head(s)))

\* line.startsWith('data: ')
StartsWithData(line) == Len(line) >= 2 /\ SubSeq(line, 1, 2) = DataPrefix

\* line.slice(6) of a line that starts with 'data: '
Slice6(line) == SubSeq(line, 3, Len(line))

RECURSIVE TrimLF(_)
\* the white space JSON.parse skips at both ends
TrimLF(s) ==
    IF s # <<>> /\ Head(s) = LF THEN TrimLF(Tail(s))
    ELSE IF s # <<>> /\ s[Len(s)] = LF THEN TrimLF(SubSeq(s, 1, Len(s) - 1))
    ELSE s

\* JSON.parse(text) returns (it throws on anything but one whole object)
JSONParses(text) ==
    LET v == TrimLF(text)
    IN  Len(v) = 3 /\ v[1].ch = "{" /\ v[2].ch = "body" /\ v[3].ch = "}"

\* the parsed message
JSONParse(text) == LET b == TrimLF(text)[2] IN SSEMessage(b.type, b.status, 0)

\* handleSSEMessage of HomePage: the status the store is left with
HP_handleSSEMessage(st, m) ==
    CASE m.type = "step_update" -> IF m.status # "none" THEN m.status ELSE st
      [] m.type = "complete"    -> "success"
      [] m.type = "error"       -> "failed"
      [] OTHER                  -> st

\* the switch of Dashboard.handleGenerate: the status the store is left with
DB_handleEvent(st, m) ==
    CASE m.type = "status" -> m.status
      [] m.type = "error"  -> "failed"
      [] OTHER             -> st

RECURSIVE HP_forLines(_, _)
\* the for loop of HomePage over the lines of a chunk; acc is the store's
\* status and the messages dispatched so far
HP_forLines(lines, acc) ==
    IF lines = <<>>
      THEN acc
      ELSE LET line == Head(lines)
           IN  IF StartsWithData(line) /\ JSONParses(Slice6(line))
                 THEN HP_forLines(Tail(lines),
                        [status  |-> HP_handleSSEMessage(acc.status,
                                                         JSONParse(Slice6(line))),
                         handled |-> Append(acc.handled, JSONParse(Slice6(line)))])
                 ELSE HP_forLines(Tail(lines), acc)

\* the lines of the text read so far, and what stays in the buffer: Dashboard
\* keeps the last, unfinished line for the next read
DB_lines(text) ==
    LET all == SplitSingle(text, <<>>)
    IN  [lines |-> SubSeq(all, 1, Len(all) - 1), buffer |-> all[Len(all)]]

\* HomePage keeps nothing: every read is split on its own
HP_lines(text) == [lines |-> SplitDouble(text, <<>>), buffer |-> <<>>]

RECURSIVE DB_forLines(_, _)
\* the for loop of Dashboard over the complete lines
DB_forLines(lines, acc) ==
    IF lines = <<>>
      THEN acc
      ELSE LET line == Head(lines)
               data == Slice6(line)
           IN  IF line = <<>> \/ ~StartsWithData(line)
                 THEN DB_forLines(Tail(lines), acc)
                 ELSE IF data = SubSeq(DoneFrame, 3, 5)
                 THEN DB_forLines(Tail(lines),
                        [status  |-> "success",
                         handled |-> Append(acc.handled,
                                            SSEMessage("[DONE]", "none", 0))])
                 ELSE IF JSONParses(data)
                 THEN DB_forLines(Tail(lines),
                        [status  |-> DB_handleEvent(acc.status, JSONParse(data)),
                         handled |-> Append(acc.handled, JSONParse(data))])
                 ELSE DB_forLines(Tail(lines), acc)

\* handleSubmit / handleGenerate with a product URL entered, up to the
\* fetch: reset(), setStatus('running')
UI_handleSubmit ==
    /\ impl \in UIs
    /\ pc = "idle"
    /\ store' = [initialStore EXCEPT !.status = "running"]
    /\ pc' = "fetching"
    /\ UNCHANGED <<impl, orchVars, obsVars, clientVars, attempt, maxRetries,
                   runError, calls, slept, lastFailure, routeVars, wire, buffer,
                   handled, consecutiveErrors, view, nReruns, pstate>>

\* fetch resolves: a response that is not ok (or has no body) throws, and
\* the catch block sets the status to failed
UI_fetchResolves(ok) ==
    /\ impl \in UIs
    /\ pc = "fetching"
    /\ IF ok
         THEN pc' = "reading" /\ UNCHANGED store
         ELSE pc' = "done" /\ store' = [store EXCEPT !.status = "failed"]
    /\ UNCHANGED <<impl, orchVars, obsVars, clientVars, attempt, maxRetries,
                   runError, calls, slept, lastFailure, routeVars, wire, buffer,
                   handled, consecutiveErrors, view, nReruns, pstate>>

\* reader.read() resolves with the next k pieces of the body: one pass
\* through the body of the while loop
UI_read(k) ==
    /\ impl \in UIs
    /\ pc = "reading"
    /\ k \in 1..Len(wire)
    /\ wire' = SubSeq(wire, k + 1, Len(wire))
    /\ LET chunk == SubSeq(wire, 1, k)
           split == IF impl = "HP" THEN HP_lines(chunk)
                                   ELSE DB_lines(buffer \o chunk)
           acc   == [status |-> store.status, handled |-> handled]
           out   == IF impl = "HP" THEN HP_forLines(split.lines, acc)
                                   ELSE DB_forLines(split.lines, acc)
       IN  /\ buffer' = split.buffer
           /\ store' = [store EXCEPT !.status = out.status]
           /\ handled' = out.handled
    /\ UNCHANGED <<impl, pc, orchVars, obsVars, clientVars, attempt, maxRetries,
                   runError, calls, slept, lastFailure, routeVars,
                   consecutiveErrors, view, nReruns, pstate>>

\* reader.read() resolves with done: the loop is left
UI_readDone ==
    /\ impl \in UIs
    /\ pc = "reading"
    /\ wire = <<>>
    /\ pc' = "done"
    /\ UNCHANGED <<impl, orchVars, obsVars, clientVars, attempt, maxRetries,
                   runError, calls, slept, lastFailure, routeVars, uiVars,
                   consecutiveErrors, view, nReruns, pstate>>

\* the page is loaded and the response the route will give is fixed: up to
\* MaxMessages messages
UI_Init ==
    /\ impl \in UIs
    /\ input = NoInput
    /\ NoOrchestrator
    /\ maxRetries = 0
    /\ attempt = 0
    /\ sent \in UNION {[1..n -> StreamMessages] : n \in 1..MaxMessages}
    /\ wire = Body(sent)
    /\ streamPc = "none"
    /\ buffer = <<>>
    /\ handled = <<>>
    /\ store = initialStore
    /\ consecutiveErrors = 0
    /\ view = NoView
    /\ nReruns = 0
    /\ pstate = initialPipelineState

UI_Next ==
    \/ UI_handleSubmit
    \/ \E ok \in BOOLEAN : UI_fetchResolves(ok)
    \/ \E k \in 1..MaxChunk : UI_read(k)
    \/ UI_readDone

-----------------------------------------------------------------------------
(* PL: pollForCompletion of src/src/lib/pipeline/vidgo.ts                   *)

PL_MAX_POLL_DURATION == 300000
PL_POLL_INTERVAL == 5000
maxConsecutiveErrors == 5

\* the status a status request can resolve with
JobStatuses == {"processing", "completed", "failed"}

\* Date.now() - startTime: the time waited so far (a request takes no time)
PL_Elapsed(waits) == Len(waits) * PL_POLL_INTERVAL

\* the catch block of the loop gives up
PL_TooManyErrors(n) == n >= maxConsecutiveErrors

\* the catch block of the loop, entered with consecutiveErrors already
\* incremented to n
PL_catch(n) ==
    /\ consecutiveErrors' = n
    /\ IF PL_TooManyErrors(n)
         THEN /\ runError' = "Too many consecutive errors while polling"
              /\ pc' = "rejected"
              /\ UNCHANGED slept
         ELSE /\ slept' = Append(slept, PL_POLL_INTERVAL)
              /\ pc' = "backoff"
              /\ UNCHANGED runError

\* pollForCompletion(jobId) up to its first status request
PL_pollForCompletion ==
    /\ impl = "PL"
    /\ pc = "idle"
    /\ calls' = 1
    /\ pc' = "inflight"
    /\ UNCHANGED <<impl, orchVars, obsVars, clientVars, attempt, maxRetries,
                   runError, slept, lastFailure, routeVars, uiVars,
                   consecutiveErrors, view, nReruns, pstate>>

\* the status request resolves and consecutiveErrors is reset: a completed
\* job is returned; for a failed job the VidgoError is thrown inside the try
\* block, so the catch block of the loop receives it; a job in progress
\* waits for the next poll
PL_StatusReceived(st) ==
    /\ impl = "PL"
    /\ pc = "inflight"
    /\ st \in JobStatuses
    /\ lastFailure' = IF st = "failed" THEN "job failed" ELSE "none"
    /\ CASE st = "completed" ->
              /\ consecutiveErrors' = 0
              /\ pc' = "resolved"
              /\ UNCHANGED <<runError, slept>>
         [] st = "failed" ->
              PL_catch(0 + 1)
         [] st = "processing" ->
              /\ consecutiveErrors' = 0
              /\ slept' = Append(slept, PL_POLL_INTERVAL)
              /\ pc' = "backoff"
              /\ UNCHANGED runError
    /\ UNCHANGED <<impl, orchVars, obsVars, clientVars, attempt, maxRetries,
                   calls, routeVars, uiVars, view, nReruns, pstate>>

\* the status request rejects (makeVidgoRequest has given up)
PL_RequestFails ==
    /\ impl = "PL"
    /\ pc = "inflight"
    /\ lastFailure' = "request failed"
    /\ PL_catch(consecutiveErrors + 1)
    /\ UNCHANGED <<impl, orchVars, obsVars, clientVars, attempt, maxRetries,
                   calls, routeVars, uiVars, view, nReruns, pstate>>

\* the poll interval is over: the while condition is tested again
PL_IntervalElapsed ==
    /\ impl = "PL"
    /\ pc = "backoff"
    /\ IF PL_Elapsed(slept) < PL_MAX_POLL_DURATION
         THEN /\ calls' = calls + 1
              /\ pc' = "inflight"
              /\ UNCHANGED runError
         ELSE /\ runError' = "Video generation timed out"
              /\ pc' = "rejected"
              /\ UNCHANGED calls
    /\ UNCHANGED <<impl, orchVars, obsVars, clientVars, attempt, maxRetries,
                   slept, lastFailure, routeVars, uiVars, consecutiveErrors,
                   view, nReruns, pstate>>

PL_Init ==
    /\ impl = "PL"
    /\ input = NoInput
    /\ NoOrchestrator
    /\ maxRetries = 0
    /\ attempt = 0
    /\ ExtIdle

PL_Next ==
    \/ PL_pollForCompletion
    \/ \E st \in JobStatuses : PL_StatusReceived(st)
    \/ PL_RequestFails
    \/ PL_IntervalElapsed

-----------------------------------------------------------------------------
(* SC: setCosts and reset of usePipelineStore (src/unnamed/part_008);       *)
(* UC: updateCosts of src/src/lib/types.ts                                  *)

\* the keys a partial update of a behaviour may carry, and the amounts
UpdateKeys == {"apify", "vidgo", "total"}
AmountChoices == {0, 3, 7}

\* Partial<CostBreakdown> values
CostUpdates == UNION {[ks -> AmountChoices] : ks \in SUBSET UpdateKeys}

\* { ...costs, ...updates }
SpreadCosts(c, upd) ==
    [k \in DOMAIN c \cup DOMAIN upd |-> IF k \in DOMAIN upd THEN upd[k] ELSE c[k]]

RECURSIVE SumEntries(_, _)
\* the entries of c under the keys ks, added up
SumEntries(c, ks) ==
    IF ks = {}
      THEN 0
      ELSE LET k == CHOOSE x \in ks : TRUE
           IN  c[k] + SumEntries(c, ks \ {k})

\* setCosts with the recomputation of total left out
Store_setCosts_TotalAsGiven(c, upd) == SpreadCosts(c, upd)

\* setCosts(costs): the spread, then total recomputed from every entry
\* whose key is not 'total'
Store_setCosts(c, upd) ==
    LET updatedCosts == SpreadCosts(c, upd)
    IN  [updatedCosts EXCEPT
            !.total = SumEntries(updatedCosts, DOMAIN updatedCosts \ {"total"})]

\* updateCosts(state, costUpdates): the spread, total recomputed from the
\* six named entries, totalCost set to it
updateCosts(st, upd) ==
    LET updatedCosts == SpreadCosts(st.costs, upd)
        total == updatedCosts.apify + updatedCosts.openai + updatedCosts.mistral
                   + updatedCosts.vidgo + updatedCosts.shotstack
                   + updatedCosts.removebg
    IN  [costs |-> [updatedCosts EXCEPT !.total = total], totalCost |-> total]

SC_setCosts(upd) ==
    /\ impl = "SC"
    /\ upd \in CostUpdates
    /\ input' = upd
    /\ store' = [store EXCEPT !.costs = Store_setCosts(store.costs, upd)]
    /\ UNCHANGED <<impl, pc, orchVars, obsVars, totalCost, runPc, tracked, result,
                   gmVars, attempt, maxRetries, runError, calls, slept, lastFailure,
                   routeVars, wire, buffer, handled, consecutiveErrors, view,
                   nReruns, pstate>>

\* reset(): the store is set to its initial state
SC_reset ==
    /\ impl = "SC"
    /\ input' = NoInput
    /\ store' = initialStore
    /\ UNCHANGED <<impl, pc, orchVars, obsVars, totalCost, runPc, tracked, result,
                   gmVars, attempt, maxRetries, runError, calls, slept, lastFailure,
                   routeVars, wire, buffer, handled, consecutiveErrors, view,
                   nReruns, pstate>>

\* the state is replaced by what updateCosts returns for it
UC_updateCosts(upd) ==
    /\ impl = "UC"
    /\ upd \in CostUpdates
    /\ input' = upd
    /\ pstate' = updateCosts(pstate, upd)
    /\ UNCHANGED <<impl, pc, orchVars, obsVars, totalCost, runPc, tracked, result,
                   gmVars, attempt, maxRetries, runError, calls, slept, lastFailure,
                   routeVars, uiVars, consecutiveErrors, view, nReruns>>

SC_Init ==
    /\ impl \in {"SC", "UC"}
    /\ input = NoInput
    /\ NoOrchestrator
    /\ maxRetries = 0
    /\ attempt = 0
    /\ ExtIdle

SC_Next ==
    \/ \E upd \in CostUpdates : SC_setCosts(upd)
    \/ SC_reset
    \/ \E upd \in CostUpdates : UC_updateCosts(upd)

-----------------------------------------------------------------------------
(* LG: the read views of PipelineLogger (src/unnamed/part_008)              *)

LogLevels == {"info", "warn", "error", "success"}

\* the steps and levels the entries of a behaviour are logged with
LG_Steps == {"scraping", "vision"}
LG_Levels == {"info", "error"}

\* Array.prototype.slice(start): a negative start counts from the end, and
\* a start beyond either end is clamped
Array_slice(s, start) ==
    LET k == IF start < 0
               THEN (IF Len(s) + start > 0 THEN Len(s) + start ELSE 0)
               ELSE Min(start, Len(s))
    IN  SubSeq(s, k + 1, Len(s))

\* this.logs.filter((log) => log.step === step)
getLogsByStep(lg, step) == SelectSeq(lg, LAMBDA e : e.step = step)

\* this.logs.filter((log) => log.level === level)
getLogsByLevel(lg, level) == SelectSeq(lg, LAMBDA e : e.level = level)

\* this.logs.slice(-count)
getRecentLogs(lg, count) == Array_slice(lg, 0 - count)

\* what a read view returned: the view, its argument, the number of entries
\* the logger held, and the list returned
ViewOf(kind, key, count, lg, res) ==
    [kind |-> kind, key |-> key, count |-> count, size |-> Len(lg), result |-> res]

\* info / warn / error / success: an entry is pushed
LG_log(step, level) ==
    /\ impl = "LG"
    /\ Len(logs) < MaxLogs
    /\ logs' = Append(logs, createLogEntry(step, level))
    /\ events' = <<"log">>
    /\ UNCHANGED <<impl, pc, orchVars, snapshot, nCancels, stateLogs,
                   clientVars, attempt,
                   maxRetries, runError, calls, slept, lastFailure, routeVars,
                   uiVars, consecutiveErrors, view, nReruns, pstate>>

LG_getLogsByStep(step) ==
    /\ impl = "LG"
    /\ view' = ViewOf("byStep", step, 0, logs, getLogsByStep(logs, step))
    /\ events' = <<>>
    /\ UNCHANGED <<impl, pc, orchVars, logs, snapshot, nCancels, stateLogs,
                   clientVars,
                   attempt, maxRetries, runError, calls, slept, lastFailure,
                   routeVars, uiVars, consecutiveErrors, nReruns, pstate>>

LG_getLogsByLevel(level) ==
    /\ impl = "LG"
    /\ view' = ViewOf("byLevel", level, 0, logs, getLogsByLevel(logs, level))
    /\ events' = <<>>
    /\ UNCHANGED <<impl, pc, orchVars, logs, snapshot, nCancels, stateLogs,
                   clientVars,
                   attempt, maxRetries, runError, calls, slept, lastFailure,
                   routeVars, uiVars, consecutiveErrors, nReruns, pstate>>

LG_getRecentLogs(count) ==
    /\ impl = "LG"
    /\ count \in 0..(MaxLogs + 1)
    /\ view' = ViewOf("recent", "none", count, logs, getRecentLogs(logs, count))
    /\ events' = <<>>
    /\ UNCHANGED <<impl, pc, orchVars, logs, snapshot, nCancels, stateLogs,
                   clientVars,
                   attempt, maxRetries, runError, calls, slept, lastFailure,
                   routeVars, uiVars, consecutiveErrors, nReruns, pstate>>

\* a new PipelineLogger
LG_Init ==
    /\ impl = "LG"
    /\ input = NoInput
    /\ NoOrchestrator
    /\ maxRetries = 0
    /\ attempt = 0
    /\ ExtIdle

LG_Next ==
    \/ \E step \in LG_Steps, level \in LG_Levels : LG_log(step, level)
    \/ \E step \in LG_Steps : LG_getLogsByStep(step)
    \/ \E level \in LogLevels : LG_getLogsByLevel(level)
    \/ \E count \in 0..(MaxLogs + 1) : LG_getRecentLogs(count)

-----------------------------------------------------------------------------
(* The specification *)

Init ==
    /\ IdleInit
    /\ \/ /\ ExtIdle
          /\ \/ input = NoInput /\ (J7_Init \/ J8_Init \/ TY_Init \/ UT_Init)
             \/ CL_Init
             \/ RB_Init
             \/ RS_Init
             \/ MC_Init
             \/ GM_Init
       \/ RT_Init
       \/ UI_Init
       \/ PL_Init
       \/ SC_Init
       \/ LG_Init

Next ==
    \/ J7_Next
    \/ J8_Next
    \/ TY_Next
    \/ UT_Next
    \/ CL_Next
    \/ RB_Next
    \/ RS_Next
    \/ MC_Next
    \/ GM_Next
    \/ RT_Next
    \/ UI_Next
    \/ PL_Next
    \/ SC_Next
    \/ LG_Next

Spec == Init /\ [][Next]_vars

-----------------------------------------------------------------------------
(* A second run() on the same part_008 Joker                                *)

\* run() called on an object whose earlier run has settled: the same code
\* as the first call; the stage records, the costs, the stage outputs and the
\* retry counts are those the earlier run left
J8_runAgain ==
    /\ impl = "J8"
    /\ UNCHANGED <<nCancels, stateLogs, clientVars>>
    /\ pc \in {"resolved", "rejected"}
    /\ nReruns < MaxReruns
    /\ nReruns' = nReruns + 1
    /\ cancelled' = FALSE
    /\ status' = "running"
    /\ startedAt' = "time"
    /\ error' = "null"
    /\ stage' = "scraping"
    /\ runError' = "none"
    /\ pc' = "boundary"
    /\ UNCHANGED <<impl, routeVars, uiVars, consecutiveErrors, view, pstate,
                   currentStep, steps, costs, retryCount, attempt, maxRetries,
                   dataVars, qualityGates, finishedAt, calls, invoked,
                   slept, lastFailure, cancelPc, nUpdates>>
    /\ events' = <<"state", "notify", "log">>
    /\ logs' = <<J8_logEntry("info")>>
    /\ snapshot' = HandOver(snapshot, J8_SharedFields, "running", currentStep,
                            steps, costs)

InitRerun == IdleInit /\ ExtIdle /\ input = NoInput /\ J8_Init

\* the steps of run() and of the run() that follows it (no cancel())
NextRerun ==
    \/ J8_run
    \/ J8_StartStage
    \/ \E r \in ResultChoices(stage) : J8_FnResolves(r)
    \/ \E kind \in FailureKinds : J8_FnRejects(kind)
    \/ J8_BackoffElapsed
    \/ J8_runAgain

\* one part_008 Joker whose run() may be called again after it has settled
SpecRerun == InitRerun /\ [][NextRerun]_vars

-----------------------------------------------------------------------------
(* Vocabulary of the properties *)

Jokers == {"J7", "J8"}

\* the orchestrators write 'completed' where types.ts declares 'success'
SuccessStatuses == {"success", "completed"}

TerminalStepStatuses == SuccessStatuses \cup {"failed"}

Mandatory == Steps \ {"background"}

Settled == pc \in {"resolved", "rejected"}

LaterStages(s) == {StageOrder[i] : i \in (StageIndex(s) + 1)..Len(StageOrder)}

\* the attempts a stage is allowed: 2 for the optional background step
\* (the literal of J7's background call), this.maxRetries otherwise
BACKGROUND_MAX_ATTEMPTS == 2

ConfiguredMaxAttempts(s) ==
    IF s = "background" THEN BACKGROUND_MAX_ATTEMPTS ELSE maxRetries

\* min(base * 2^(k-1), cap) with base = 1000 ms and cap = 10000 ms
SpecifiedDelay(k) == Min(1000 * (2 ^ (k - 1)), 10000)

-----------------------------------------------------------------------------
(* Properties *)

\* C1: in every state an observer can be handed, costs.total equals the sum
\* of the six per-stage amounts.
C1_TotalIsSumOfStages == costs.total = SumCosts(costs)

\* C1 witness: a run that has booked the cost of two stages.
C1_Witness ==
    /\ impl = "J8"
    /\ costs.scraping > 0
    /\ costs.vision > 0
    /\ costs.total = costs.scraping + costs.vision

\* C2: for every stage, status is success or failed exactly when completedAt
\* is non-null, and progress is 100 whenever status is success or failed.
C2_StageRecordInvariant ==
    \A s \in Steps :
        /\ (steps[s].status \in TerminalStepStatuses) <=> NonNull(steps[s].completedAt)
        /\ (steps[s].status \in TerminalStepStatuses) => steps[s].progress = 100

\* C3: while an orchestrator runs, a stage that has left pending has a
\* predecessor that reached a terminal per-stage status, and at most one
\* stage is running.
C3_StrictStageOrder ==
    impl \in Jokers =>
        /\ \A i \in 1..(Len(StageOrder) - 1) :
              steps[StageOrder[i + 1]].status # "pending"
                  => steps[StageOrder[i]].status \in TerminalStepStatuses
        /\ Cardinality({s \in Steps : steps[s].status = "running"}) <= 1

\* C3 witness: the last stage is running after the five before it.
C3_Witness ==
    /\ impl = "J8"
    /\ steps["assembly"].status = "running"
    /\ \A s \in Steps \ {"assembly"} : steps[s].status = "completed"

\* C4: when run() has rejected with the error of a mandatory stage's
\* provider, the overall status is failed, that stage is failed with its
\* error message, and every later stage is still pending.
C4_MandatoryFailureFailsRun ==
    (impl \in Jokers /\ pc = "rejected" /\ runError = "provider error"
       /\ stage \in Mandatory)
        => /\ status = "failed"
           /\ steps[stage].status = "failed"
           /\ NonNull(steps[stage].error)
           /\ \A s \in LaterStages(stage) : steps[s].status = "pending"

\* C5: when the content result that the quality loop ends with scores below
\* the threshold, the video and assembly providers are never invoked.
C5_HardGateBeforeVideo ==
    (impl \in Jokers /\ steps["content"].status \in SuccessStatuses
       /\ evaluateQuality("content", marketingAngles) < J8_QUALITY_MIN)
        => invoked \cap {"video", "assembly"} = {}

\* C6: a failure of the optional background stage after all its attempts
\* does not make the overall status failed.
C6_BackgroundFailureTolerated ==
    (impl \in Jokers /\ stage = "background" /\ lastFailure # "none" /\ Settled)
        => status # "failed"

\* C7: after a non-retryable failure the retry engine neither sleeps a
\* backoff delay nor invokes the stage call again.
C7_NonRetryableStops ==
    lastFailure = "fatal" => pc \notin {"backoff", "inflight"}

\* C8: the stage call of a stage is never invoked more often than the
\* configured maxAttempts.
C8_AttemptsBounded ==
    impl \in Jokers => calls <= ConfiguredMaxAttempts(stage)

\* C9: the k-th backoff delay of an engine call is min(1000 * 2^(k-1), 10000)
\* milliseconds, and no delay follows the last attempt.
C9_BackoffSchedule ==
    /\ \A k \in 1..Len(slept) : slept[k] = SpecifiedDelay(k)
    /\ Settled /\ calls > 0 => Len(slept) = calls - 1

\* C10: when cancel() was called while a stage call was in flight, the run
\* settles with overall status cancelled and every later stage pending.
C10_CancelWhileRunning ==
    (impl \in Jokers /\ cancelPc = "inflight" /\ Settled)
        => /\ status = "cancelled"
           /\ \A s \in LaterStages(currentStep) : steps[s].status = "pending"

\* the fields of the run state (PipelineState)
runState == <<status, currentStep, steps, costs, error, dataVars, startedAt,
              finishedAt>>

TerminalStatuses == SuccessStatuses \cup {"failed", "cancelled"}

\* a step that initiates a provider call
InitiatesCall == pc # "inflight" /\ pc' = "inflight"

\* C11: once run() has been called and the overall status is terminal, no
\* step of run() or cancel() changes the overall status or any other field
\* of the run state.
C11_NoMutationAfterTerminal ==
    [][(impl \in Jokers /\ pc # "idle" /\ status \in TerminalStatuses)
          => UNCHANGED runState]_vars

\* C12: the overall status is running while a stage is running, success
\* when run() has resolved, and failed or cancelled when run() has rejected.
C12_OverallStatusTracksRun ==
    impl \in Jokers =>
        /\ (\E s \in Steps : steps[s].status = "running") => status = "running"
        /\ pc = "resolved" => status \in SuccessStatuses
        /\ pc = "rejected" => status \in {"failed", "cancelled"}

\* C16: once cancel() has been called, the orchestrator initiates no
\* further provider call.
C16_NoCallAfterCancel ==
    [][(impl \in Jokers /\ cancelled) => ~InitiatesCall]_vars

\* the kinds of event that are mutations of what an observer is shown
ObservedMutations == {"log", "step", "cost"}

\* C14: every mutation (a stage record write, a cost addition, a log append)
\* is followed by a notification before the next mutation happens.
C14_MutationThenNotification ==
    impl \in Jokers =>
        \A i \in 1..(Len(events) - 1) :
            events[i] \in ObservedMutations => events[i + 1] = "notify"

\* what a field of the object the observer kept reads now: a shared field is
\* the orchestrator's own object
SnapshotReads(f) ==
    IF f \in snapshot.shares
      THEN (IF f = "steps" THEN steps ELSE costs)
      ELSE snapshot[f]

\* C15: the object handed to the observer or returned by getState() reads
\* the same whatever the orchestrator does afterwards.
C15_SnapshotImmutable ==
    snapshot.handed =>
        \A f \in {"status", "currentStep", "steps", "costs"} :
            SnapshotReads(f) = snapshot[f]

\* the number of warn-level entries logged for stage s
WarnCount(lg, s) ==
    Cardinality({i \in 1..Len(lg) : lg[i].step = s /\ lg[i].level = "warn"})

\* C17 (for k = 1): when the provider has failed retryably once and then
\* succeeds, the stage ends success, its retry count is 1 and exactly one
\* warn-level entry is logged for the stage.
C17_RetryThenSuccess ==
    [][(/\ impl \in Jokers
        /\ pc = "inflight" /\ calls = 2 /\ lastFailure = "retryable"
        /\ lastFailure' = "none" /\ pc' \notin {"inflight", "backoff"})
          => /\ steps'[stage].status \in SuccessStatuses
             /\ WarnCount(logs', stage) = 1
             /\ impl = "J8" => retryCount'[stage] = 1]_vars

\* C18: when every attempt of the background provider has failed, the
\* background record is success, a warn-level entry is logged, the background
\* cost is 0 and the total is the sum of the other five amounts.
C18_BackgroundDegrades ==
    (/\ impl \in Jokers
     /\ stage = "background" /\ lastFailure # "none"
     /\ pc \notin {"inflight", "backoff"})
        => /\ steps["background"].status \in SuccessStatuses
           /\ \E i \in 1..Len(logs) : logs[i].level = "warn"
           /\ costs.background = 0
           /\ costs.total = costs.scraping + costs.vision + costs.content
                              + costs.video + costs.assembly

\* the attempts per call the README promises
MAX_ATTEMPTS_PER_CALL == 3

RemoveBgs == {"RB", "RS"}

\* C13: two concurrent runs share no cost state: what a provider module's
\* getTotalCost() shows is what the run itself has tracked there.
C13_RunsShareNoCost ==
    impl = "MC" =>
        \A r \in Runs, m \in Modules : getTotalCost(m) = tracked[r][m]

\* C19: when removeBackground has met a failure, it has resolved with a
\* transparentUrl made from the original input, cost 0 and a warning.
C19_FallsBackToOriginal ==
    (impl \in RemoveBgs /\ Settled /\ lastFailure # "none")
        => /\ result.settled = "resolved"
           /\ result.transparentUrl \in {"<input>", "data:image/png;base64,<input>"}
           /\ result.cost = 0
           /\ result.warning

\* C20: a provider client sends at most three HTTP requests per call.
C20_AtMostThreeAttempts ==
    impl \in Clients \cup {"RB"} => calls <= MAX_ATTEMPTS_PER_CALL

\* the cap of the quality loop
QUALITY_LOOP_CAP == 2

\* C27: generateMarketingAngles goes through its quality loop at most 2
\* times, and sends at most 2 x maxAttempts requests to the provider.
C27_QualityLoopBounded ==
    impl \in GMs =>
        /\ qualityAttempt <= QUALITY_LOOP_CAP
        /\ calls <= QUALITY_LOOP_CAP * MAX_ATTEMPTS_PER_CALL

\* C28: generateMarketingAngles never resolves with angles whose average
\* quality is below the minimum.
C28_NeverResolvesLowQuality ==
    (impl \in GMs /\ pc = "resolved") => averageQuality >= GM_MinQuality(impl)

\* C21: a run that fails rejects with its first fatal cause: the provider's
\* error when a stage has failed for good, the cancellation error when
\* cancel() was called before run().
C21_FirstFatalCause ==
    impl \in Jokers =>
        /\ (pc = "rejected" /\ lastFailure # "none") => runError = "provider error"
        /\ (cancelPc = "idle" /\ Settled)
              => (pc = "rejected" /\ runError = "Pipeline cancelled")

\* C22: every stage status is one of pending, running, success, failed,
\* retrying; no stage is retrying when the run has settled; a stage that has
\* reached success is never changed to failed.
C22_StageStatusMachine ==
    /\ [](impl \in Jokers =>
            (\A s \in Steps :
                /\ steps[s].status \in StatusValues
                /\ Settled => steps[s].status # "retrying"))
    /\ [][(impl \in Jokers) =>
            (\A s \in Steps :
                steps[s].status \in SuccessStatuses => steps'[s].status # "failed")]_vars

IsPrefix(a, b) == Len(a) <= Len(b) /\ SubSeq(b, 1, Len(a)) = a

\* the steps at which the model's view of the part_008 logger starts anew
\* (logs holds the entries since the current stage started)
J8_LogViewRestarts == impl = "J8" /\ pc \in {"idle", "boundary"}

\* the entries appended after the last notification of a step
LogsSinceNotify(ev) ==
    LET n == {i \in 1..Len(ev) : ev[i] = "notify"}
        last == CHOOSE i \in n : \A j \in n : j <= i
    IN  Cardinality({i \in (last + 1)..Len(ev) : ev[i] = "log"})

\* C23: the log only grows by appending, and the logs field of a notified
\* state object is the logger's sequence at the time of the notification.
C23_LogAppendOnly ==
    /\ [][(impl \in Jokers /\ ~J8_LogViewRestarts) => IsPrefix(logs, logs')]_vars
    /\ []((impl \in Jokers /\ \E i \in 1..Len(events) : events[i] = "notify")
            => /\ stateLogs.present
               /\ stateLogs.entries
                    = SubSeq(logs, 1, Len(logs) - LogsSinceNotify(events)))

\* C24: between stages and after the run has settled, the cost the logger
\* reports for the stage just run equals that stage's amount in the ledger,
\* and (part_007, whose whole log is kept) the logger's total equals
\* costs.total.
C24_LoggerAgreesWithLedger ==
    (impl \in Jokers /\ pc \in {"boundary", "resolved", "rejected"}
       /\ currentStep # "null")
        => /\ PipelineLogger_getCostBreakdown(logs, currentStep) = costs[currentStep]
           /\ impl = "J7" => PipelineLogger_getTotalCost(logs) = costs.total

\* C25: when a stage call has failed and the orchestrator has decided what
\* to do (wait for a retry, abort, go on), the error is on the stage record
\* and a warn or error entry is in the log.
C25_ErrorRecordedBeforeDecision ==
    (impl \in Jokers /\ lastFailure # "none"
       /\ pc \in {"backoff", "boundary", "rejected"})
        => /\ NonNull(steps[stage].error)
           /\ \E i \in 1..Len(logs) : logs[i].level \in {"warn", "error"}

\* a result of stage s has been stored whose score is below the threshold
LowConfidence(s) ==
    IF s = "scraping"
      THEN /\ productData \in ProductChoices
           /\ evaluateQuality("scraping", productData) < J8_QUALITY_MIN
      ELSE /\ visionAnalysis \in VisionChoices
           /\ evaluateQuality("vision", visionAnalysis) < J8_QUALITY_MIN

\* the failed gate of stage s can be read from the state
GateRetained(s) ==
    /\ qualityGates # "undefined"
    /\ \E g \in qualityGates : g.step = s /\ ~g.passed

\* C26: when scraping or vision has produced a result below the threshold,
\* the stage is success, the run has not failed on it, a warn entry was
\* logged for it, and its failed gate result can be read afterwards.
C26_SoftGate ==
    impl \in Jokers =>
        \A s \in {"scraping", "vision"} :
            LowConfidence(s)
                => /\ steps[s].status \in SuccessStatuses
                   /\ currentStep = s
                        => \E i \in 1..Len(logs) : logs[i].level = "warn"
                   /\ GateRetained(s)

\* C29: when cancel() was called before run(), no stage is started: every
\* stage stays pending, no provider is invoked and the run ends cancelled.
C29_CancelBeforeRun ==
    (impl \in Jokers /\ cancelPc = "idle" /\ pc # "idle")
        => /\ invoked = {}
           /\ \A s \in Steps : steps[s].status = "pending"
           /\ Settled => status = "cancelled"

\* the data a stage depends on
DependenciesOf(s) ==
    CASE s = "scraping" -> TRUE
      [] s \in {"vision", "background"} ->
            productData \in ProductChoices /\ ProductTable[productData].images
      [] s = "content"  -> productData # "null" /\ visionAnalysis # "null"
      [] s = "video"    -> AnglesTable[marketingAngles].length > 0
      [] s = "assembly" -> videoGenResult # "null"

MissingDependencyErrors ==
    {"No product image available", "Missing required data for content generation",
     "No marketing angles available", "Missing required assets for assembly"}

\* C30: a stage that has left pending has its data dependencies, and a run
\* that failed on a missing dependency has left the dependent stage pending.
C30_DependenciesPresent ==
    impl \in Jokers =>
        /\ \A s \in Steps : steps[s].status # "pending" => DependenciesOf(s)
        /\ (pc = "rejected" /\ runError \in MissingDependencyErrors)
              => steps[stage].status = "pending"

\* C30 witness: the scraped product has no image and the run has failed at
\* the vision step, which was never marked running.
C30_Witness ==
    /\ impl = "J8"
    /\ pc = "rejected"
    /\ runError = "No product image available"
    /\ steps["scraping"].status = "completed"
    /\ steps["vision"].status = "pending"

\* the messages of the given types, as positions in msgs
Positions(msgs, types) == {i \in 1..Len(msgs) : msgs[i].type \in types}

TerminalTypes == {"complete", "error"}

RECURSIVE LogsDelivered(_)
\* the entries the log messages of msgs carry, in the order sent
LogsDelivered(msgs) ==
    IF msgs = <<>>
      THEN <<>>
      ELSE (IF Head(msgs).type = "log" THEN <<Head(msgs).log>> ELSE <<>>)
             \o LogsDelivered(Tail(msgs))

\* C32: the log messages sent so far carry the first entries of the log, each
\* once and in insertion order, and when the stream is closed every entry
\* has been sent.
C32_EveryLogEntryOnce ==
    impl = "RT" =>
        /\ \A i \in 1..Len(LogsDelivered(sent)) : LogsDelivered(sent)[i] = i
        /\ streamPc = "closed" => Len(LogsDelivered(sent)) = Len(logs)

\* the message types the route sends
RouteTypes == {"step_update", "log", "cost_update", "complete", "error", "ping"}

RECURSIVE OfTypes(_, _)
\* the messages of msgs whose type is in types, in order
OfTypes(msgs, types) ==
    IF msgs = <<>>
      THEN <<>>
      ELSE (IF Head(msgs).type \in types THEN <<Head(msgs)>> ELSE <<>>)
             \o OfTypes(Tail(msgs), types)

\* C33: whatever the reads cut the response body into, the messages of the
\* route the reader has dispatched are the first ones sent, each once and in
\* order, and all of them once the body has been read to its end.
C33_EveryMessageHandledOnce ==
    (impl \in UIs /\ pc \in {"reading", "done"}) =>
        /\ IsPrefix(OfTypes(handled, RouteTypes), OfTypes(sent, RouteTypes))
        /\ (pc = "done" /\ wire = <<>>)
              => OfTypes(handled, RouteTypes) = OfTypes(sent, RouteTypes)

\* the reader has dispatched a message of one of the types
Handled(types) == \E i \in 1..Len(handled) : handled[i].type \in types

\* C34: from the submission until a terminal message (complete, error,
\* [DONE]) is handled the store's status is running, and after an error
\* message has been handled the status is not success.
C34_StatusRunningThenFinal ==
    impl \in UIs =>
        /\ (pc \in {"fetching", "reading"} /\ ~Handled({"complete", "error", "[DONE]"}))
              => store.status = "running"
        /\ Handled({"error"}) => store.status # "success"

\* C35: when a status request has returned `failed`, pollForCompletion has
\* rejected with the 'Video generation failed' error (and so issues no
\* further status request).
C35_FailedJobFailsAtOnce ==
    (impl = "PL" /\ lastFailure = "job failed")
        => (pc = "rejected" /\ runError = "Video generation failed")

\* C36: after run() has been called again on a part_008 Joker and that run
\* has settled, costs.total equals the sum of the six per-stage amounts.
C36_LedgerAfterSecondRun ==
    (impl = "J8" /\ nReruns > 0 /\ Settled) => costs.total = SumCosts(costs)

RECURSIVE EntriesWith(_, _, _)
\* the entries of lg whose field f is v, in the order of lg
EntriesWith(lg, f, v) ==
    IF lg = <<>>
      THEN <<>>
      ELSE (IF Head(lg)[f] = v THEN <<Head(lg)>> ELSE <<>>)
             \o EntriesWith(Tail(lg), f, v)

\* the last Min(n, Len(lg)) entries of lg
LastEntries(lg, n) == SubSeq(lg, Len(lg) - Min(n, Len(lg)) + 1, Len(lg))

\* C38: a read view returns, of the entries the logger held when it was
\* read and in their order, exactly those with the step / the level asked
\* for, and for getRecentLogs(n) the last min(n, length) entries (none for
\* n = 0).
C38_ReadViewsExact ==
    impl = "LG" =>
        LET held == SubSeq(logs, 1, view.size)
        IN  /\ view.kind = "byStep" => view.result = EntriesWith(held, "step", view.key)
            /\ view.kind = "byLevel" => view.result = EntriesWith(held, "level", view.key)
            /\ view.kind = "recent" => view.result = LastEntries(held, view.count)

\* C39: a call of updateStepStatus of types.ts leaves the state object it
\* was given as it was and changes the record of at most one stage; a stage's
\* startedAt is written only when it is null and the new status is running,
\* is set whenever the stage is running, and once set keeps its value;
\* currentStep changes only to a stage whose new status is running.
C39_PureStepUpdate ==
    [][(impl = "TY") =>
         (/\ snapshot'.steps = steps
          /\ snapshot'.currentStep = currentStep
          /\ \E s \in Steps : \A o \in Steps \ {s} : steps'[o] = steps[o]
          /\ \A s \in Steps :
                /\ NonNull(steps[s].startedAt)
                      => steps'[s].startedAt = steps[s].startedAt
                /\ steps'[s].startedAt # steps[s].startedAt
                      => steps'[s].status = "running"
                /\ steps'[s].status = "running" => NonNull(steps'[s].startedAt)
          /\ currentStep' # currentStep
                => steps'[currentStep'].status = "running")]_vars

\* C39 witness: the scraping stage was set running at the first call, ended
\* at the second and was set running again at the third; it still has the
\* start time of the first call, and the vision stage was never touched.
C39_Witness ==
    /\ impl = "TY"
    /\ nUpdates = 3
    /\ steps["scraping"].status = "running"
    /\ steps["scraping"].startedAt = TY_Instants[1]
    /\ steps["scraping"].completedAt = TY_Instants[2]
    /\ currentStep = "scraping"
    /\ steps["vision"] = TY_initialStep
    /\ snapshot.steps["scraping"].status = "success"

====
